---- MODULE Spec2Model ----
(***************************************************************************)
(* Pico-Development-Kit: ST7796 display driver, GT911 touch driver, the    *)
(* LVGL bridge layer and the two FreeRTOS tasks of main.c.                 *)
(*                                                                         *)
(* Two specifications share the driver operators:                          *)
(*   DrvSpec  - the driver and bridge functions called one at a time with  *)
(*              arbitrary arguments; each action is one whole call and     *)
(*              records the bus events the call emitted.                   *)
(*   Spec     - main(), task0, task1 and the GPIO interrupt, interleaved;  *)
(*              driver calls advance one bus event per step.               *)
(***************************************************************************)
EXTENDS Integers, Sequences, FiniteSets, TLC

VARIABLES
    current_orientation,   \* st7796.c:52
    disp_flush_enabled,    \* lv_port_disp.c:32
    pin_cs, pin_dc,        \* levels of ST7796_PIN_CS / ST7796_PIN_DC
    last,                  \* DrvSpec: the call just made (name and arguments)
    bus,                   \* DrvSpec: bus events emitted by that call
    calls,                 \* DrvSpec: driver/engine calls made by that call
    mainpc,                \* position of main()
    lvgl_mutex,            \* main.c:28, "NULL" or "handle"
    holder,                \* task owning lvgl_mutex, or "none"
    pc,                    \* position of task0 / task1
    isrpc,                 \* position of gpio_callback
    txq,                   \* per context: bus events of the driver call in progress
    active,                \* per context: bus transaction in progress
    screen,                \* widgets that exist on the active screen
    hwstep,                \* position inside hw_handler
    adc_en,                \* main.c:44
    joystick_ball,         \* main.c:42
    leds,                  \* main.c:37-38 (led1, led2 created)
    irq_en,                \* GPIO interrupts enabled (main.c:391-393)
    wdog,                  \* hardware watchdog: "off", "armed", "reset"
    gt911_dev,             \* gt911.c:29
    gt_last,               \* gt911.c:118-119, last_x / last_y of gt911_read_touch
    indev_last,            \* lv_port_indev.c:26-27, last_x / last_y
    indev_data,            \* the lv_indev_data_t filled in by the last sample
    gt_call                \* last gt911 call: what it returned and stored
                           \* through its pointers, and the state it started in

vars == <<current_orientation, disp_flush_enabled, pin_cs, pin_dc, last, bus,
          calls, mainpc, lvgl_mutex, holder, pc, isrpc, txq, active, screen,
          hwstep, adc_en, joystick_ball, leds, irq_en, wdog, gt911_dev,
          gt_last, indev_last, indev_data, gt_call>>

touchVars == <<gt911_dev, gt_last, indev_last, indev_data, gt_call>>

drvVars == <<current_orientation, disp_flush_enabled, pin_cs, pin_dc, last,
             bus, calls>>

sysVars == <<mainpc, lvgl_mutex, holder, pc, isrpc, txq, active, screen,
             hwstep, adc_en, joystick_ball, leds, irq_en, wdog>>

(***************************************************************************)
(* Bounds of the model                                                     *)
(***************************************************************************)
MaxPixels == 3          \* longest pixel buffer handed to write_color
MaxSide == 2            \* largest width / height of a flushed area
MaxOrientArg == 4       \* orientation arguments 0..MaxOrientArg
MaxRegLen == 2          \* longest register read asked of gt911_i2c_read_reg

PixelVals == {255, 4660, 65280}             \* 0x00FF 0x1234 0xFF00

(***************************************************************************)
(* Program constants                                                       *)
(***************************************************************************)
ST7796_WIDTH == 320
ST7796_HEIGHT == 480
ST7796_CMD_CASET == 42      \* 0x2A
ST7796_CMD_RASET == 43      \* 0x2B
ST7796_CMD_RAMWR == 44      \* 0x2C
ST7796_CMD_MADCTL == 54     \* 0x36
ST7796_CMD_INVON == 33      \* 0x21
ST7796_PORTRAIT == 0
ST7796_LANDSCAPE == 1
ST7796_PORTRAIT_INV == 2
ST7796_LANDSCAPE_INV == 3

U8 == 256
U16 == 65536

(***************************************************************************)
(* Bus events.  A driver call is the sequence of events it emits.          *)
(***************************************************************************)
Ev(op, v, bytes) == [op |-> op, v |-> v, bytes |-> bytes, ret |-> 0]

LCD_CS_LOW == Ev("cs", 0, <<>>)
LCD_CS_HIGH == Ev("cs", 1, <<>>)
LCD_DC_CMD == Ev("dc", 0, <<>>)
LCD_DC_DATA == Ev("dc", 1, <<>>)
LCD_RST_LOW == Ev("rst", 0, <<>>)
LCD_RST_HIGH == Ev("rst", 1, <<>>)
sleep_us(n) == Ev("sleep_us", n, <<>>)
sleep_ms(n) == Ev("sleep_ms", n, <<>>)

\* spi_write_blocking(port, src, len): the first len bytes of src
spi_write_blocking(src, len) == Ev("spi", len, SubSeq(src, 1, len))

\* A buffer argument: a NULL pointer or the elements it points to
NullBuf == [null |-> TRUE, px |-> <<>>]
Buf(s) == [null |-> FALSE, px |-> s]

\* faulty variant: the command/data line is left as it was
st7796_write_cmd_nodc(cmd) ==
    << LCD_CS_LOW, sleep_us(1),
       spi_write_blocking(<<cmd>>, 1),
       sleep_us(1), LCD_CS_HIGH >>

st7796_write_cmd(cmd) ==
    << LCD_CS_LOW, LCD_DC_CMD, sleep_us(1),
       spi_write_blocking(<<cmd>>, 1),
       sleep_us(1), LCD_CS_HIGH >>

st7796_write_data(data, len) ==
    IF len = 0 \/ data.null
    THEN <<>>
    ELSE << LCD_CS_LOW, LCD_DC_DATA, sleep_us(1),
            spi_write_blocking(data.px, len),
            sleep_us(1), LCD_CS_HIGH >>

Hi8(x) == (x \div 256) % 256     \* (x >> 8) & 0xFF
Lo8(x) == x % 256                \* x & 0xFF

\* faulty variant: range bytes sent low byte first
st7796_set_window_lohi(x1, y1, x2, y2) ==
    st7796_write_cmd(ST7796_CMD_CASET)
    \o st7796_write_data(Buf(<<Lo8(x1), Hi8(x1), Lo8(x2), Hi8(x2)>>), 4)
    \o st7796_write_cmd(ST7796_CMD_RASET)
    \o st7796_write_data(Buf(<<Lo8(y1), Hi8(y1), Lo8(y2), Hi8(y2)>>), 4)
    \o st7796_write_cmd(ST7796_CMD_RAMWR)

st7796_set_window(x1, y1, x2, y2) ==
    st7796_write_cmd(ST7796_CMD_CASET)
    \o st7796_write_data(Buf(<<Hi8(x1), Lo8(x1), Hi8(x2), Lo8(x2)>>), 4)
    \o st7796_write_cmd(ST7796_CMD_RASET)
    \o st7796_write_data(Buf(<<Hi8(y1), Lo8(y1), Hi8(y2), Lo8(y2)>>), 4)
    \o st7796_write_cmd(ST7796_CMD_RAMWR)

\* (const uint8_t *)color on the little-endian Cortex-M0+: low byte first.
\* len * 2 is a uint32_t product; a buffer of len pixels occupies len * 2
\* bytes of a 32-bit address space, so the product does not wrap.
RECURSIVE MemBytes(_)
MemBytes(px) ==
    IF px = <<>> THEN <<>>
    ELSE <<Head(px) % 256, Head(px) \div 256>> \o MemBytes(Tail(px))

\* faulty variant: len bytes instead of len * 2
st7796_write_color_halved(color, len) ==
    IF len = 0 \/ color.null
    THEN <<>>
    ELSE << LCD_CS_LOW, LCD_DC_DATA,
            spi_write_blocking(MemBytes(color.px), len),
            LCD_CS_HIGH >>

st7796_write_color(color, len) ==
    IF len = 0 \/ color.null
    THEN <<>>
    ELSE << LCD_CS_LOW, LCD_DC_DATA,
            spi_write_blocking(MemBytes(color.px), len * 2),
            LCD_CS_HIGH >>

\* faulty variant: the rows of the two landscape rotations exchanged
madctl_value_exchanged(orientation) ==
    CASE orientation = ST7796_PORTRAIT -> 72
      [] orientation = ST7796_LANDSCAPE -> 232
      [] orientation = ST7796_PORTRAIT_INV -> 136
      [] orientation = ST7796_LANDSCAPE_INV -> 40
      [] OTHER -> 72

madctl_value(orientation) ==
    CASE orientation = ST7796_PORTRAIT -> 72          \* 0x48
      [] orientation = ST7796_LANDSCAPE -> 40         \* 0x28
      [] orientation = ST7796_PORTRAIT_INV -> 136     \* 0x88
      [] orientation = ST7796_LANDSCAPE_INV -> 232    \* 0xE8
      [] OTHER -> 72

\* returns the stored orientation and the events
st7796_set_orientation(orientation) ==
    [ orient |-> orientation,
      tr |-> st7796_write_cmd(ST7796_CMD_MADCTL)
             \o << LCD_CS_LOW, LCD_DC_DATA,
                   spi_write_blocking(<<madctl_value(orientation)>>, 1),
                   LCD_CS_HIGH >> ]

st7796_hw_reset ==
    << LCD_RST_HIGH, sleep_ms(100), LCD_RST_LOW, sleep_ms(100),
       LCD_RST_HIGH, sleep_ms(100) >>

\* gpio_put(CS,1); gpio_put(DC,1); gpio_put(RST,1)
st7796_gpio_init == << LCD_CS_HIGH, LCD_DC_DATA, LCD_RST_HIGH >>

st7796_spi_init == << Ev("spi_init", 62500000, <<>>) >>

\* uint8_t data[16]: the initialiser list, zero filled
Pad16(s) == [i \in 1..16 |-> IF i <= Len(s) THEN s[i] ELSE 0]
Cmd(c, d, n) == [cmd |-> c, data |-> Pad16(d), databytes |-> n]

init_cmds ==
    << Cmd(207, <<0, 131, 48>>, 3),
       Cmd(237, <<100, 3, 18, 129>>, 4),
       Cmd(232, <<133, 1, 121>>, 3),
       Cmd(203, <<57, 44, 0, 52, 2>>, 5),
       Cmd(247, <<32>>, 1),
       Cmd(234, <<0, 0>>, 2),
       Cmd(192, <<38>>, 1),
       Cmd(193, <<17>>, 1),
       Cmd(197, <<53, 62>>, 2),
       Cmd(199, <<190>>, 1),
       Cmd(54, <<40>>, 1),
       Cmd(58, <<5>>, 1),
       Cmd(177, <<0, 27>>, 2),
       Cmd(242, <<8>>, 1),
       Cmd(38, <<1>>, 1),
       Cmd(224, <<31, 26, 24, 10, 15, 6, 69, 135, 50, 10, 7, 2, 7, 5, 0>>, 15),
       Cmd(225, <<0, 37, 39, 5, 16, 9, 58, 120, 77, 5, 24, 13, 56, 58, 31>>, 15),
       Cmd(42, <<0, 0, 0, 239>>, 4),
       Cmd(43, <<0, 0, 1, 63>>, 4),
       Cmd(44, <<0>>, 0),
       Cmd(183, <<7>>, 1),
       Cmd(182, <<10, 130, 39, 0>>, 4),
       Cmd(17, <<0>>, 128),
       Cmd(41, <<0>>, 128),
       Cmd(0, <<0>>, 255) >>

\* faulty variant: the delay flag (bit 7) is not looked at
ReplayEntry_nodelay(e) ==
    LET data_len == e.databytes % 32
    IN  st7796_write_cmd(e.cmd)
        \o (IF data_len > 0 THEN st7796_write_data(Buf(e.data), data_len) ELSE <<>>)

\* one pass of the while loop body for init_cmds[cmd_idx]
ReplayEntry(e) ==
    LET data_len == e.databytes % 32                  \* databytes & 0x1F
    IN  st7796_write_cmd(e.cmd)
        \o (IF data_len > 0 THEN st7796_write_data(Buf(e.data), data_len) ELSE <<>>)
        \o (IF (e.databytes \div 128) % 2 = 1 THEN <<sleep_ms(100)>> ELSE <<>>)

RECURSIVE ReplayFrom(_, _)
ReplayFrom(cmds, cmd_idx) ==
    IF cmds[cmd_idx].databytes = 255
    THEN <<>>
    ELSE ReplayEntry(cmds[cmd_idx]) \o ReplayFrom(cmds, cmd_idx + 1)

\* faulty variant: the inversion command sent before the orientation
st7796_init_inversion_first ==
    LET so == st7796_set_orientation(ST7796_PORTRAIT)
    IN  [ orient |-> so.orient,
          tr |-> st7796_spi_init \o st7796_gpio_init \o st7796_hw_reset
                 \o ReplayFrom(init_cmds, 1)
                 \o st7796_write_cmd(ST7796_CMD_INVON)
                 \o so.tr ]

st7796_init ==
    LET so == st7796_set_orientation(ST7796_PORTRAIT)
    IN  [ orient |-> so.orient,
          tr |-> st7796_spi_init \o st7796_gpio_init \o st7796_hw_reset
                 \o ReplayFrom(init_cmds, 1)
                 \o so.tr
                 \o st7796_write_cmd(ST7796_CMD_INVON) ]

(***************************************************************************)
(* lv_port_disp.c                                                          *)
(***************************************************************************)
\* (lv_coord_t) cast: lv_coord_t is int16_t
ToI16(v) == LET m == v % U16 IN IF m >= 32768 THEN m - U16 ELSE m

\* faulty variant: width without the inclusive + 1
lv_area_get_width_exclusive(area) == ToI16(area.x2 - area.x1)

lv_area_get_width(area) == ToI16(area.x2 - area.x1 + 1)
lv_area_get_height(area) == ToI16(area.y2 - area.y1 + 1)

Call(fn, args, buf) == [fn |-> fn, args |-> args, buf |-> buf]

\* faulty variant: the updates-enabled flag is not consulted
disp_flush_ungated(enabled, area, color_p) ==
    << Call("st7796_set_window",
            <<area.x1 % U16, area.y1 % U16, area.x2 % U16, area.y2 % U16>>,
            NullBuf),
       Call("st7796_write_color",
            <<lv_area_get_width(area) * lv_area_get_height(area)>>, color_p),
       Call("lv_disp_flush_ready", <<>>, NullBuf) >>

\* the calls disp_flush makes, in order
disp_flush(enabled, area, color_p) ==
    IF ~enabled
    THEN << Call("lv_disp_flush_ready", <<>>, NullBuf) >>
    ELSE LET size == lv_area_get_width(area) * lv_area_get_height(area)
         IN << Call("st7796_set_window",
                    <<area.x1 % U16, area.y1 % U16, area.x2 % U16, area.y2 % U16>>,
                    NullBuf),
               Call("st7796_write_color", <<size>>, color_p),
               Call("lv_disp_flush_ready", <<>>, NullBuf) >>

\* bus events of one call made by the bridge
CallEvents(c) ==
    CASE c.fn = "st7796_set_window" ->
            st7796_set_window(c.args[1], c.args[2], c.args[3], c.args[4])
      [] c.fn = "st7796_write_color" -> st7796_write_color(c.buf, c.args[1])
      [] OTHER -> <<>>

RECURSIVE BusOfCalls(_)
BusOfCalls(cs) ==
    IF cs = <<>> THEN <<>> ELSE CallEvents(Head(cs)) \o BusOfCalls(Tail(cs))

(***************************************************************************)
(* gt911.c                                                                 *)
(***************************************************************************)
GT911_PRODUCT_ID_LEN == 4
GT911_REG_PRODUCT_ID1 == 33088      \* 0x8140
GT911_REG_X_RES_L == 33094          \* 0x8146
GT911_REG_X_RES_H == 33095          \* 0x8147
GT911_REG_Y_RES_L == 33096          \* 0x8148
GT911_REG_Y_RES_H == 33097          \* 0x8149
GT911_REG_VENDOR_ID == 33098        \* 0x814A
GT911_REG_STATUS == 33102           \* 0x814E
GT911_REG_PT1_X_L == 33104          \* 0x8150
GT911_REG_PT1_X_H == 33105          \* 0x8151
GT911_REG_PT1_Y_L == 33106          \* 0x8152
GT911_REG_PT1_Y_H == 33107          \* 0x8153
GT911_STATUS_BUF_READY == 128       \* 0x80
GT911_STATUS_PT_MASK == 15          \* 0x0F
PICO_ERROR_GENERIC == -1

\* i2c_write_blocking(port, addr, src, len, nostop) returning ret
i2c_write_blocking(src, len, nostop, ret) ==
    [op |-> "i2c_write", v |-> IF nostop THEN 1 ELSE 0,
     bytes |-> SubSeq(src, 1, len), ret |-> ret]

\* i2c_read_blocking(port, addr, dst, len, nostop) returning ret; bytes read
i2c_read_blocking(data, len, nostop, ret) ==
    [op |-> "i2c_read", v |-> IF nostop THEN 1 ELSE 0,
     bytes |-> IF ret < 0 THEN <<>> ELSE SubSeq(data, 1, len), ret |-> ret]

\* What the bus answers to one register read: the address phase is
\* acknowledged or not, the data phase is acknowledged or not, the bytes the
\* controller sends.
Resp(w, r, d) == [w |-> w, r |-> r, data |-> d]

\* faulty variant: the result of the address phase is not checked
gt911_i2c_read_reg_unchecked(reg, isnull, len, resp) ==
    IF isnull \/ len = 0
    THEN [ok |-> FALSE, data |-> <<>>, tr |-> <<>>]
    ELSE LET wr == i2c_write_blocking(<<Hi8(reg), Lo8(reg)>>, 2, TRUE,
                                      IF resp.w THEN 2 ELSE PICO_ERROR_GENERIC)
             rd == i2c_read_blocking(resp.data, len, FALSE,
                                     IF resp.r THEN len ELSE PICO_ERROR_GENERIC)
         IN  IF rd.ret < 0
             THEN [ok |-> FALSE, data |-> <<>>, tr |-> <<wr, rd>>]
             ELSE [ok |-> TRUE, data |-> rd.bytes, tr |-> <<wr, rd>>]

\* data: the bytes stored into the caller's buffer (none on failure)
gt911_i2c_read_reg(reg, isnull, len, resp) ==
    IF isnull \/ len = 0
    THEN [ok |-> FALSE, data |-> <<>>, tr |-> <<>>]
    ELSE LET wr == i2c_write_blocking(<<Hi8(reg), Lo8(reg)>>, 2, TRUE,
                                      IF resp.w THEN 2 ELSE PICO_ERROR_GENERIC)
             rd == i2c_read_blocking(resp.data, len, FALSE,
                                     IF resp.r THEN len ELSE PICO_ERROR_GENERIC)
         IN  IF wr.ret < 0
             THEN [ok |-> FALSE, data |-> <<>>, tr |-> <<wr>>]
             ELSE IF rd.ret < 0
                  THEN [ok |-> FALSE, data |-> <<>>, tr |-> <<wr, rd>>]
                  ELSE [ok |-> TRUE, data |-> rd.bytes, tr |-> <<wr, rd>>]

\* faulty variant: only the register address is written, without the zero
gt911_clear_status_short(ackok) ==
    << i2c_write_blocking(<<129, 78>>, 2, FALSE,
                          IF ackok THEN 2 ELSE PICO_ERROR_GENERIC) >>

\* the write of gt911_clear_status; its return value is discarded
gt911_clear_status(ackok) ==
    << i2c_write_blocking(<<129, 78, 0>>, 3, FALSE,
                          IF ackok THEN 3 ELSE PICO_ERROR_GENERIC) >>

gt911_i2c_init(baud_ok) ==
    IF ~baud_ok
    THEN [ok |-> FALSE, tr |-> << Ev("i2c_init", 100000, <<>>) >>]
    ELSE [ok |-> TRUE, tr |-> << Ev("i2c_init", 100000, <<>>), sleep_ms(10) >>]

GtDev0 == [initialized |-> FALSE, product_id |-> <<0, 0, 0, 0, 0>>,
           max_x |-> 0, max_y |-> 0]

\* registers read by gt911_init, in the order of the calls
InitRegs ==
    << GT911_REG_PRODUCT_ID1,
       GT911_REG_PRODUCT_ID1, GT911_REG_PRODUCT_ID1 + 1,
       GT911_REG_PRODUCT_ID1 + 2, GT911_REG_PRODUCT_ID1 + 3,
       GT911_REG_VENDOR_ID,
       GT911_REG_X_RES_L, GT911_REG_X_RES_H,
       GT911_REG_Y_RES_L, GT911_REG_Y_RES_H >>

\* n-th read of a call: env.fail = n makes it fail, in phase env.phase
RespAt(env, n) ==
    Resp(~(env.fail = n /\ env.phase = "addr"),
         ~(env.fail = n /\ env.phase = "data"),
         <<env.bytes[n]>>)

\* events of reads first..last of regs, stopping after the first failed one
RECURSIVE ReadsTrace(_, _, _, _)
ReadsTrace(regs, env, first, lst) ==
    IF first > lst THEN <<>>
    ELSE LET r == gt911_i2c_read_reg(regs[first], FALSE, 1, RespAt(env, first))
         IN  r.tr \o (IF r.ok THEN ReadsTrace(regs, env, first + 1, lst) ELSE <<>>)

\* faulty variant: the result of the last read of a call is not checked
OkReads_last_unchecked(env, total) ==
    IF env.fail \in 1..(total - 1) THEN env.fail - 1 ELSE total

\* number of reads of a call that succeeded before it returned
OkReads(env, total) == IF env.fail \in 1..total THEN env.fail - 1 ELSE total

\* faulty variant: the two bytes assembled high byte first
Or16_swapped(lo, hi) == hi + lo * 256

Or16(lo, hi) == lo + hi * 256       \* lo | ((uint16_t)hi << 8), lo, hi < 256

gt911_init(dev, env) ==
    IF dev.initialized
    THEN [ret |-> TRUE, dev |-> dev, tr |-> <<>>]
    ELSE LET ii == gt911_i2c_init(env.baud_ok)
             n == OkReads(env, 10)
             b == env.bytes
             pid == [i \in 1..5 |->
                        IF i <= 4 THEN (IF n >= i + 1 THEN b[i + 1]
                                        ELSE dev.product_id[i])
                        ELSE (IF n >= 5 THEN 0 ELSE dev.product_id[5])]
             mx == IF n >= 8 THEN Or16(b[7], b[8])
                   ELSE IF n >= 7 THEN b[7] ELSE dev.max_x
             my == IF n >= 10 THEN Or16(b[9], b[10])
                   ELSE IF n >= 9 THEN b[9] ELSE dev.max_y
         IN  IF ~ii.ok
             THEN [ret |-> FALSE, dev |-> dev, tr |-> ii.tr]
             ELSE [ret |-> n = 10,
                   dev |-> [initialized |-> n = 10, product_id |-> pid,
                            max_x |-> mx, max_y |-> my],
                   tr |-> ii.tr \o ReadsTrace(InitRegs, env, 1, 10)]

\* registers read by gt911_read_touch: status, then the point registers
TouchRegs ==
    << GT911_REG_STATUS, GT911_REG_PT1_X_L, GT911_REG_PT1_X_H,
       GT911_REG_PT1_Y_L, GT911_REG_PT1_Y_H >>

\* out: the values stored through x, y, pressed (written = FALSE: untouched)
NoOut == [written |-> FALSE, x |-> 0, y |-> 0, pressed |-> FALSE]
Out(x, y, p) == [written |-> TRUE, x |-> x, y |-> y, pressed |-> p]

\* faulty variant: touch_count >= 1 in place of touch_count == 1
gt911_read_touch_multi(dev, lst, env) ==
    IF ~dev.initialized
    THEN [ret |-> FALSE, out |-> NoOut, lst |-> lst, tr |-> <<>>]
    ELSE LET st == gt911_i2c_read_reg(GT911_REG_STATUS, FALSE, 1, RespAt(env, 1))
             status_reg == st.data[1]
             touch_count == status_reg % 16
             ack == IF (status_reg \div 128) % 2 = 1 \/ touch_count < 6
                    THEN gt911_clear_status(env.ackok) ELSE <<>>
             n == OkReads(env, 5)
             b == env.bytes
             lx == IF n >= 3 THEN Or16(b[2], b[3])
                   ELSE IF n >= 2 THEN b[2] ELSE lst.x
             ly == IF n >= 5 THEN Or16(b[4], b[5])
                   ELSE IF n >= 4 THEN b[4] ELSE lst.y
         IN  IF ~st.ok
             THEN [ret |-> FALSE, out |-> NoOut, lst |-> lst, tr |-> st.tr]
             ELSE IF touch_count >= 1
                  THEN [ret |-> n = 5,
                        out |-> IF n = 5 THEN Out(lx, ly, TRUE) ELSE NoOut,
                        lst |-> [x |-> lx, y |-> ly],
                        tr |-> st.tr \o ack \o ReadsTrace(TouchRegs, env, 2, 5)]
                  ELSE [ret |-> TRUE,
                        out |-> Out(lst.x, lst.y, FALSE),
                        lst |-> lst,
                        tr |-> st.tr \o ack]

gt911_read_touch(dev, lst, env) ==
    IF ~dev.initialized
    THEN [ret |-> FALSE, out |-> NoOut, lst |-> lst, tr |-> <<>>]
    ELSE LET st == gt911_i2c_read_reg(GT911_REG_STATUS, FALSE, 1, RespAt(env, 1))
             status_reg == st.data[1]
             touch_count == status_reg % 16
             ack == IF (status_reg \div 128) % 2 = 1 \/ touch_count < 6
                    THEN gt911_clear_status(env.ackok) ELSE <<>>
             n == OkReads(env, 5)
             b == env.bytes
             lx == IF n >= 3 THEN Or16(b[2], b[3])
                   ELSE IF n >= 2 THEN b[2] ELSE lst.x
             ly == IF n >= 5 THEN Or16(b[4], b[5])
                   ELSE IF n >= 4 THEN b[4] ELSE lst.y
         IN  IF ~st.ok
             THEN [ret |-> FALSE, out |-> NoOut, lst |-> lst, tr |-> st.tr]
             ELSE IF touch_count = 1
                  THEN [ret |-> n = 5,
                        out |-> IF n = 5 THEN Out(lx, ly, TRUE) ELSE NoOut,
                        lst |-> [x |-> lx, y |-> ly],
                        tr |-> st.tr \o ack \o ReadsTrace(TouchRegs, env, 2, 5)]
                  ELSE [ret |-> TRUE,
                        out |-> Out(lst.x, lst.y, FALSE),
                        lst |-> lst,
                        tr |-> st.tr \o ack]

\* the answers of a bus on which nothing has been asked yet
NoEnv == [baud_ok |-> TRUE, fail |-> 0, phase |-> "data", ackok |-> TRUE,
          bytes |-> <<>>]

\* record of one driver call: its return value, the values stored through
\* its output pointers, the driver state it started in, and the answers of
\* the bus (NoEnv when the call returned without using the bus)
CallRec(ret, out, dev0, lst0, tr, env) ==
    [ret |-> ret, out |-> out, dev0 |-> dev0, lst0 |-> lst0,
     env |-> IF tr = <<>> THEN NoEnv ELSE env]

(***************************************************************************)
(* lv_port_indev.c                                                         *)
(***************************************************************************)
LV_INDEV_STATE_REL == 0
LV_INDEV_STATE_PR == 1

\* touchpad_init discards the result of gt911_init
touchpad_init(dev, env) == gt911_init(dev, env)

\* faulty variant: the two axes exchanged in the reported point
touchpad_read_swapped(dev, drvlast, lst, env) ==
    LET r == gt911_read_touch(dev, drvlast, env)
    IN  IF r.ret /\ r.out.pressed
        THEN [drv |-> r,
              data |-> [x |-> ToI16(r.out.y), y |-> ToI16(r.out.x),
                        state |-> LV_INDEV_STATE_PR,
                        continue_reading |-> FALSE],
              lst |-> [x |-> ToI16(r.out.x), y |-> ToI16(r.out.y)]]
        ELSE [drv |-> r,
              data |-> [x |-> lst.x, y |-> lst.y,
                        state |-> LV_INDEV_STATE_REL,
                        continue_reading |-> FALSE],
              lst |-> lst]

\* faulty variant: the sample polls the controller whether or not the driver
\* was brought up
touchpad_read_unguarded(dev, drvlast, lst, env) ==
    LET r == gt911_read_touch([dev EXCEPT !.initialized = TRUE], drvlast, env)
    IN  IF r.ret /\ r.out.pressed
        THEN [drv |-> r,
              data |-> [x |-> ToI16(r.out.x), y |-> ToI16(r.out.y),
                        state |-> LV_INDEV_STATE_PR,
                        continue_reading |-> FALSE],
              lst |-> [x |-> ToI16(r.out.x), y |-> ToI16(r.out.y)]]
        ELSE [drv |-> r,
              data |-> [x |-> lst.x, y |-> lst.y,
                        state |-> LV_INDEV_STATE_REL,
                        continue_reading |-> FALSE],
              lst |-> lst]

\* touchpad_read: data is the lv_indev_data_t filled in, lst the bridge's
\* last_x / last_y (int16_t), drv the driver call it made
touchpad_read(dev, drvlast, lst, env) ==
    LET r == gt911_read_touch(dev, drvlast, env)
    IN  IF r.ret /\ r.out.pressed
        THEN [drv |-> r,
              data |-> [x |-> ToI16(r.out.x), y |-> ToI16(r.out.y),
                        state |-> LV_INDEV_STATE_PR,
                        continue_reading |-> FALSE],
              lst |-> [x |-> ToI16(r.out.x), y |-> ToI16(r.out.y)]]
        ELSE [drv |-> r,
              data |-> [x |-> lst.x, y |-> lst.y,
                        state |-> LV_INDEV_STATE_REL,
                        continue_reading |-> FALSE],
              lst |-> lst]

(***************************************************************************)
(* Views of an event sequence                                              *)
(***************************************************************************)
\* level of a control line after the events, starting from level v0
PinAfter(tr, pin, v0) ==
    LET idx == {i \in 1..Len(tr) : tr[i].op = pin}
    IN  IF idx = {} THEN v0
        ELSE tr[CHOOSE i \in idx : \A j \in idx : j <= i].v

\* every SPI write of the events with the line levels it was sent under
Frames(tr, cs0, dc0) ==
    LET idx == {i \in 1..Len(tr) : tr[i].op = "spi"}
        nth(k) == CHOOSE i \in idx : Cardinality({j \in idx : j <= i}) = k
    IN  [k \in 1..Cardinality(idx) |->
            [cs |-> PinAfter(SubSeq(tr, 1, nth(k)), "cs", cs0),
             dc |-> PinAfter(SubSeq(tr, 1, nth(k)), "dc", dc0),
             bytes |-> tr[nth(k)].bytes]]

Frame(cs, dc, bytes) == [cs |-> cs, dc |-> dc, bytes |-> bytes]

(***************************************************************************)
(* Initial state: power-up, before main() has run                          *)
(***************************************************************************)
Contexts == {"main", "task0", "task1", "isr"}
Tasks == {"task0", "task1"}

Init ==
    /\ current_orientation = ST7796_PORTRAIT
    /\ disp_flush_enabled = TRUE
    /\ pin_cs = 0
    /\ pin_dc = 0
    /\ last = [name |-> "boot", args |-> <<>>, buf |-> NullBuf]
    /\ bus = <<>>
    /\ calls = <<>>
    /\ mainpc = "lv_init"
    /\ lvgl_mutex = "NULL"
    /\ holder = "none"
    /\ pc = [t \in Tasks |-> "nocreate"]
    /\ isrpc = "idle"
    /\ txq = [c \in Contexts |-> <<>>]
    /\ active = [c \in Contexts |-> "none"]
    /\ screen = "none"
    /\ hwstep = 0
    /\ adc_en = 0
    /\ joystick_ball = "NULL"
    /\ leds = {}
    /\ irq_en = FALSE
    /\ wdog = "off"
    /\ gt911_dev = GtDev0
    /\ gt_last = [x |-> 0, y |-> 0]
    /\ indev_last = [x |-> 0, y |-> 0]
    /\ indev_data = [x |-> 0, y |-> 0, state |-> LV_INDEV_STATE_REL,
                     continue_reading |-> FALSE]
    /\ gt_call = CallRec(FALSE, NoOut, GtDev0, [x |-> 0, y |-> 0], <<>>, NoEnv)

(***************************************************************************)
(* DrvSpec: one driver or bridge call per step                             *)
(***************************************************************************)
CoordVals == {0, 258, ST7796_HEIGHT - 1}     \* 0x0000 0x0102 0x01DF

PixelSeq == <<255, 4660, 65280>>

\* pixel buffers of up to MaxPixels pixels
PixelBufs == UNION {[1..n -> PixelVals] : n \in 0..MaxPixels}

\* the areas the engine asks to flush, inside the panel
FlushAreas ==
    { [x1 |-> x, y1 |-> y, x2 |-> x + w - 1, y2 |-> y + h - 1] :
        x \in {0, ST7796_WIDTH - MaxSide},
        y \in {255, ST7796_HEIGHT - MaxSide},
        w \in 1..MaxSide, h \in 1..MaxSide }

\* the engine's draw buffer for an area of n pixels
DrawBuf(n, s) == Buf([i \in 1..n |-> PixelSeq[((i + s) % 3) + 1]])

AreaArgs(a) == <<a.x1, a.y1, a.x2, a.y2>>

\* lv_port_disp_init has run st7796_init: every other call comes after it
DisplayUp == last.name # "boot"

Returned(name, args, buf, tr, cl) ==
    /\ last' = [name |-> name, args |-> args, buf |-> buf]
    /\ bus' = tr
    /\ calls' = cl
    /\ pin_cs' = PinAfter(tr, "cs", pin_cs)
    /\ pin_dc' = PinAfter(tr, "dc", pin_dc)
    /\ UNCHANGED <<sysVars, touchVars>>

Drv_st7796_init ==
    LET r == st7796_init
    IN  /\ Returned("st7796_init", <<>>, NullBuf, r.tr, <<>>)
        /\ current_orientation' = r.orient
        /\ UNCHANGED disp_flush_enabled

Drv_st7796_set_orientation ==
    \E o \in 0..MaxOrientArg :
        LET r == st7796_set_orientation(o)
        IN  /\ DisplayUp
            /\ Returned("st7796_set_orientation", <<o>>, NullBuf, r.tr, <<>>)
            /\ current_orientation' = r.orient
            /\ UNCHANGED disp_flush_enabled

Drv_st7796_set_window ==
    \E x1 \in CoordVals, y1 \in CoordVals, x2 \in CoordVals, y2 \in CoordVals :
        /\ DisplayUp
        /\ Returned("st7796_set_window", <<x1, y1, x2, y2>>, NullBuf,
                    st7796_set_window(x1, y1, x2, y2), <<>>)
        /\ UNCHANGED <<current_orientation, disp_flush_enabled>>

Drv_st7796_write_color ==
    \E px \in PixelBufs, isnull \in BOOLEAN :
      \E len \in (IF isnull THEN 0..MaxPixels ELSE 0..Len(px)) :
        LET color == IF isnull THEN NullBuf ELSE Buf(px)
        IN  /\ DisplayUp
            /\ isnull => px = <<>>
            /\ Returned("st7796_write_color", <<len>>, color,
                        st7796_write_color(color, len), <<>>)
            /\ UNCHANGED <<current_orientation, disp_flush_enabled>>

Drv_disp_flush ==
    \E area \in FlushAreas, s \in 0..1 :
        LET color_p == DrawBuf((area.x2 - area.x1 + 1) * (area.y2 - area.y1 + 1), s)
            cl == disp_flush(disp_flush_enabled, area, color_p)
        IN  /\ DisplayUp
            /\ Returned("disp_flush", AreaArgs(area), color_p, BusOfCalls(cl), cl)
            /\ UNCHANGED <<current_orientation, disp_flush_enabled>>

Drv_disp_enable_update ==
    /\ DisplayUp
    /\ disp_flush_enabled' = TRUE
    /\ Returned("disp_enable_update", <<>>, NullBuf, <<>>, <<>>)
    /\ UNCHANGED current_orientation

Drv_disp_disable_update ==
    /\ DisplayUp
    /\ disp_flush_enabled' = FALSE
    /\ Returned("disp_disable_update", <<>>, NullBuf, <<>>, <<>>)
    /\ UNCHANGED current_orientation

DrvNext ==
    \/ Drv_st7796_init
    \/ Drv_st7796_set_orientation
    \/ Drv_st7796_set_window
    \/ Drv_st7796_write_color
    \/ Drv_disp_flush
    \/ Drv_disp_enable_update
    \/ Drv_disp_disable_update

DrvSpec == Init /\ [][DrvNext]_vars

(***************************************************************************)
(* Properties of the bridge and display driver calls (DrvSpec)             *)
(***************************************************************************)
CountCalls(fn) == Cardinality({i \in DOMAIN calls : calls[i].fn = fn})

\* C7: a flush made while updates are disabled issues no display bus
\* transaction (no set_window, no write_color, no bus event) and signals
\* lv_disp_flush_ready exactly once.
C7_DisabledFlushIsSilent ==
    (last.name = "disp_flush" /\ ~disp_flush_enabled) =>
        /\ bus = <<>>
        /\ CountCalls("st7796_set_window") = 0
        /\ CountCalls("st7796_write_color") = 0
        /\ CountCalls("lv_disp_flush_ready") = 1

C7_Witness ==
    /\ last.name = "disp_flush"
    /\ ~disp_flush_enabled
    /\ Len(calls) = 1
    /\ last.args[3] > last.args[1]

\* C8: a flush made while updates are enabled calls set_window(x1,y1,x2,y2)
\* once, then write_color once with count (x2-x1+1)*(y2-y1+1), then
\* lv_disp_flush_ready once as its last action; the bus carries the five
\* window frames and then one burst of 2*count bytes.
C8_EnabledFlushSequence ==
    (last.name = "disp_flush" /\ disp_flush_enabled) =>
        LET x1 == last.args[1]
            y1 == last.args[2]
            x2 == last.args[3]
            y2 == last.args[4]
            n == (x2 - x1 + 1) * (y2 - y1 + 1)
            fr == Frames(bus, 1, 1)
        IN  /\ Len(calls) = 3
            /\ calls[1] = [fn |-> "st7796_set_window",
                           args |-> <<x1, y1, x2, y2>>, buf |-> NullBuf]
            /\ calls[2] = [fn |-> "st7796_write_color",
                           args |-> <<n>>, buf |-> last.buf]
            /\ calls[3].fn = "lv_disp_flush_ready"
            /\ Len(fr) = 6
            /\ fr[1].bytes = <<42>>
            /\ fr[5].bytes = <<44>>
            /\ Len(fr[6].bytes) = 2 * n

C8_Witness ==
    /\ last.name = "disp_flush"
    /\ disp_flush_enabled
    /\ last.args[3] > last.args[1]
    /\ last.args[4] > last.args[2]
    /\ Len(calls) = 3

\* C9: set_window(x1,y1,x2,y2) with x1 <= x2 and y1 <= y2 sends command 0x2A,
\* data [x1>>8, x1&0xFF, x2>>8, x2&0xFF], command 0x2B, data
\* [y1>>8, y1&0xFF, y2>>8, y2&0xFF], command 0x2C, and nothing else.
C9_SetWindowFrames ==
    (/\ last.name = "st7796_set_window"
     /\ last.args[1] <= last.args[3]
     /\ last.args[2] <= last.args[4]) =>
        LET x1 == last.args[1]
            y1 == last.args[2]
            x2 == last.args[3]
            y2 == last.args[4]
        IN  Frames(bus, 1, 1) =
              << Frame(0, 0, <<42>>),
                 Frame(0, 1, <<x1 \div 256, x1 % 256, x2 \div 256, x2 % 256>>),
                 Frame(0, 0, <<43>>),
                 Frame(0, 1, <<y1 \div 256, y1 % 256, y2 \div 256, y2 % 256>>),
                 Frame(0, 0, <<44>>) >>

C9_Witness ==
    /\ last.name = "st7796_set_window"
    /\ last.args = <<0, 258, 479, 479>>
    /\ Len(bus) = 30

\* C10: write_color(pixels, count) with count > 0 sends one data-mode burst
\* of exactly 2*count bytes, the bytes of the pixel buffer in memory order;
\* with count = 0 it emits no bus event at all.
C10_WriteColorVerbatim ==
    (last.name = "st7796_write_color") =>
        LET count == last.args[1]
            px == last.buf.px
            fr == Frames(bus, 1, 1)
        IN  /\ count = 0 => bus = <<>>
            /\ (count > 0 /\ ~last.buf.null) =>
                 /\ Len(fr) = 1
                 /\ fr[1].cs = 0
                 /\ fr[1].dc = 1
                 /\ Len(fr[1].bytes) = 2 * count
                 /\ \A i \in 1..count :
                      /\ fr[1].bytes[2 * i - 1] = px[i] % 256
                      /\ fr[1].bytes[2 * i] = px[i] \div 256
                 /\ Len(bus) = 4

C10_Witness ==
    /\ last.name = "st7796_write_color"
    /\ ~last.buf.null
    /\ last.args[1] = 2
    /\ last.buf.px[1] = 4660
    /\ Len(bus) = 4

\* C11: set_orientation with one of the four rotations sends command 0x36,
\* then exactly one data byte: 0x48 for PORTRAIT, 0x28 for LANDSCAPE, 0x88
\* for PORTRAIT_INV, 0xE8 for LANDSCAPE_INV; the rotation is then the stored
\* current orientation.
C11_OrientationRegister ==
    (/\ last.name = "st7796_set_orientation"
     /\ last.args[1] \in {ST7796_PORTRAIT, ST7796_LANDSCAPE,
                          ST7796_PORTRAIT_INV, ST7796_LANDSCAPE_INV}) =>
        LET o == last.args[1]
            reg == CASE o = ST7796_PORTRAIT -> 72
                     [] o = ST7796_LANDSCAPE -> 40
                     [] o = ST7796_PORTRAIT_INV -> 136
                     [] o = ST7796_LANDSCAPE_INV -> 232
        IN  /\ Frames(bus, 1, 1) = << Frame(0, 0, <<54>>), Frame(0, 1, <<reg>>) >>
            /\ current_orientation = o

C11_Witness ==
    /\ last.name = "st7796_set_orientation"
    /\ last.args = <<ST7796_LANDSCAPE_INV>>
    /\ current_orientation = ST7796_LANDSCAPE_INV
    /\ Len(bus) = 10

\* C12: whatever st7796_init and set_orientation calls have been made, with
\* whatever argument, the stored current orientation is one of the four
\* rotations.
C12_OrientationIsARotation ==
    current_orientation \in {ST7796_PORTRAIT, ST7796_LANDSCAPE,
                             ST7796_PORTRAIT_INV, ST7796_LANDSCAPE_INV}

\* the SPI writes and the millisecond delays of the events, in order: a
\* write with the line levels it was sent under, a delay with its length
Items(tr, cs0, dc0) ==
    LET idx == {i \in 1..Len(tr) : tr[i].op \in {"spi", "sleep_ms"}}
        nth(k) == CHOOSE i \in idx : Cardinality({j \in idx : j <= i}) = k
    IN  [k \in 1..Cardinality(idx) |->
            IF tr[nth(k)].op = "spi"
            THEN [cs |-> PinAfter(SubSeq(tr, 1, nth(k)), "cs", cs0),
                  dc |-> PinAfter(SubSeq(tr, 1, nth(k)), "dc", dc0),
                  bytes |-> tr[nth(k)].bytes]
            ELSE [ms |-> tr[nth(k)].v]]

Delay(n) == [ms |-> n]

\* the bring-up script of the panel as the initialiser list gives it:
\* opcode, payload, whether a 100 ms delay follows
InitScript ==
    << <<207, <<0, 131, 48>>, FALSE>>,
       <<237, <<100, 3, 18, 129>>, FALSE>>,
       <<232, <<133, 1, 121>>, FALSE>>,
       <<203, <<57, 44, 0, 52, 2>>, FALSE>>,
       <<247, <<32>>, FALSE>>,
       <<234, <<0, 0>>, FALSE>>,
       <<192, <<38>>, FALSE>>,
       <<193, <<17>>, FALSE>>,
       <<197, <<53, 62>>, FALSE>>,
       <<199, <<190>>, FALSE>>,
       <<54, <<40>>, FALSE>>,
       <<58, <<5>>, FALSE>>,
       <<177, <<0, 27>>, FALSE>>,
       <<242, <<8>>, FALSE>>,
       <<38, <<1>>, FALSE>>,
       <<224, <<31, 26, 24, 10, 15, 6, 69, 135, 50, 10, 7, 2, 7, 5, 0>>, FALSE>>,
       <<225, <<0, 37, 39, 5, 16, 9, 58, 120, 77, 5, 24, 13, 56, 58, 31>>, FALSE>>,
       <<42, <<0, 0, 0, 239>>, FALSE>>,
       <<43, <<0, 0, 1, 63>>, FALSE>>,
       <<44, <<>>, FALSE>>,
       <<183, <<7>>, FALSE>>,
       <<182, <<10, 130, 39, 0>>, FALSE>>,
       <<17, <<>>, TRUE>>,
       <<41, <<>>, TRUE>> >>

\* what replaying entries i.. of the script puts on the bus
RECURSIVE ScriptItems(_)
ScriptItems(i) ==
    IF i > Len(InitScript) THEN <<>>
    ELSE LET e == InitScript[i]
         IN  << Frame(0, 0, <<e[1]>>) >>
             \o (IF e[2] # <<>> THEN << Frame(0, 1, e[2]) >> ELSE <<>>)
             \o (IF e[3] THEN << Delay(100) >> ELSE <<>>)
             \o ScriptItems(i + 1)

\* what st7796_init sends after the script
InitTail == << Frame(0, 0, <<54>>), Frame(0, 1, <<72>>), Frame(0, 0, <<33>>) >>

\* C26: st7796_init replays the script in table order, once: for each entry
\* the opcode, then the payload iff its length is above 0, then a 100 ms
\* delay iff bit 7 of the length byte is set; nothing of the 0xFF entry is
\* sent.  Between the three delays of the hardware reset and the three
\* closing writes the bus carries exactly the script.
C26_ScriptReplayedInOrder ==
    (last.name = "st7796_init") =>
        LET it == Items(bus, 0, 0)
        IN  /\ Len(it) = 3 + Len(ScriptItems(1)) + 3
            /\ SubSeq(it, 1, 3) = << Delay(100), Delay(100), Delay(100) >>
            /\ SubSeq(it, 4, Len(it) - 3) = ScriptItems(1)

C26_Witness ==
    /\ last.name = "st7796_init"
    /\ Len(Items(bus, 0, 0)) = 53
    /\ Items(bus, 0, 0)[50] = Delay(100)

\* C27: after the script st7796_init sends command 0x36 with data 0x48 and
\* stores PORTRAIT, then sends command 0x21, which is the last bus
\* transaction of the call.
C27_OrientationThenInversion ==
    (last.name = "st7796_init") =>
        LET it == Items(bus, 0, 0)
        IN  /\ SubSeq(it, Len(it) - 2, Len(it)) = InitTail
            /\ current_orientation = ST7796_PORTRAIT
            /\ bus[Len(bus)] = LCD_CS_HIGH
            /\ bus[Len(bus) - 2].bytes = <<33>>

C27_Witness ==
    /\ last.name = "st7796_init"
    /\ current_orientation = ST7796_PORTRAIT
    /\ pin_cs = 1
    /\ pin_dc = 0

\* the command/data level of each SPI write a display call must make:
\* low for an opcode, high for payload and pixel bytes
DcPattern ==
    LET dcs(fr) == [k \in 1..Len(fr) |-> fr[k].dc]
        IsFrame(x) == "bytes" \in DOMAIN x
    IN  CASE last.name = "st7796_set_window" -> <<0, 1, 0, 1, 0>>
          [] last.name = "st7796_set_orientation" -> <<0, 1>>
          [] last.name = "st7796_write_color" ->
                IF bus = <<>> THEN <<>> ELSE <<1>>
          [] last.name = "disp_flush" ->
                IF bus = <<>> THEN <<>> ELSE <<0, 1, 0, 1, 0, 1>>
          [] last.name = "st7796_init" ->
                dcs(SelectSeq(ScriptItems(1), IsFrame) \o InitTail)

DisplayOps ==
    {"st7796_init", "st7796_set_orientation", "st7796_set_window",
     "st7796_write_color", "disp_flush"}

\* C28: whatever the levels of the lines before a display call, every byte
\* it sends goes out with chip-select low, opcodes with the command/data
\* line low, payload and pixel bytes with it high; chip-select is high when
\* the call has returned.
C28_ChipSelectAndDcDiscipline ==
    (last.name \in DisplayOps) =>
        /\ pin_cs = 1
        /\ \A cs0 \in {0, 1}, dc0 \in {0, 1} :
              LET fr == Frames(bus, cs0, dc0)
              IN  /\ \A k \in 1..Len(fr) : fr[k].cs = 0
                  /\ [k \in 1..Len(fr) |-> fr[k].dc] = DcPattern

C28_Witness ==
    /\ last.name = "disp_flush"
    /\ Len(Frames(bus, 1, 1)) = 6
    /\ pin_cs = 1
    /\ pin_dc = 1

(***************************************************************************)
(* TouchSpec: one call of the GT911 driver per step, against a bus and a   *)
(* controller that answer anything                                         *)
(***************************************************************************)
\* X_L, X_H, Y_L, Y_H of the resolution the controller reports: 320 x 480
ResRegs == { <<64, 1, 224, 1>> }

\* the ten bytes gt911_init reads: probe, "911\0", vendor id, resolution
InitBytes(res) == <<57, 57, 49, 49, 0, 0>> \o res

\* no failure, or the n-th read of the call fails in one of its two phases
FailPoints(total) ==
    {[fail |-> 0, phase |-> "data"]}
    \cup {[fail |-> n, phase |-> p] : n \in 1..total, p \in {"addr", "data"}}

\* i2c_init reports a baud rate and every read may fail, or it reports 0
TouchInitEnvs ==
    { [baud_ok |-> TRUE, fail |-> f.fail, phase |-> f.phase, ackok |-> TRUE,
       bytes |-> InitBytes(res)] : f \in FailPoints(10), res \in ResRegs }
    \cup { [baud_ok |-> FALSE, fail |-> 0, phase |-> "data", ackok |-> TRUE,
            bytes |-> InitBytes(res)] : res \in ResRegs }

\* status bytes: buffer-ready bit set or clear, contact count 0..15
StatusVals == {0, 2, 6, 129, 134}

\* X_L, X_H, Y_L, Y_H of the first contact
PointRegs == { <<100, 0, 200, 0>>, <<44, 1, 224, 1>> }

TouchReadEnvs ==
    { [baud_ok |-> TRUE, fail |-> f.fail, phase |-> f.phase, ackok |-> a,
       bytes |-> <<st>> \o pt] :
        f \in FailPoints(5), a \in BOOLEAN, st \in StatusVals, pt \in PointRegs }

TouchReturned(name, tr) ==
    /\ last' = [name |-> name, args |-> <<>>, buf |-> NullBuf]
    /\ bus' = tr
    /\ calls' = <<>>
    /\ UNCHANGED <<current_orientation, disp_flush_enabled, pin_cs, pin_dc,
                   sysVars, indev_last, indev_data>>

\* faulty variant: the initialized flag is not looked at before bring-up
Tch_gt911_init_noguard ==
    \E env \in TouchInitEnvs :
        LET r == gt911_init([gt911_dev EXCEPT !.initialized = FALSE], env)
        IN  /\ gt911_dev' = r.dev
            /\ gt_call' = CallRec(r.ret, NoOut, gt911_dev, gt_last, r.tr, env)
            /\ UNCHANGED gt_last
            /\ TouchReturned("gt911_init", r.tr)

Tch_gt911_init ==
    \E env \in TouchInitEnvs :
        LET r == gt911_init(gt911_dev, env)
        IN  /\ gt911_dev' = r.dev
            /\ gt_call' = CallRec(r.ret, NoOut, gt911_dev, gt_last, r.tr, env)
            /\ UNCHANGED gt_last
            /\ TouchReturned("gt911_init", r.tr)

\* faulty variant: the initialized flag is not looked at before reading
Tch_gt911_read_touch_noguard ==
    \E env \in TouchReadEnvs :
        LET r == gt911_read_touch([gt911_dev EXCEPT !.initialized = TRUE],
                                  gt_last, env)
        IN  /\ gt_last' = r.lst
            /\ gt_call' = CallRec(r.ret, r.out, gt911_dev, gt_last, r.tr, env)
            /\ UNCHANGED gt911_dev
            /\ TouchReturned("gt911_read_touch", r.tr)

Tch_gt911_read_touch ==
    \E env \in TouchReadEnvs :
        LET r == gt911_read_touch(gt911_dev, gt_last, env)
        IN  /\ gt_last' = r.lst
            /\ gt_call' = CallRec(r.ret, r.out, gt911_dev, gt_last, r.tr, env)
            /\ UNCHANGED gt911_dev
            /\ TouchReturned("gt911_read_touch", r.tr)

TouchNext ==
    \/ Tch_gt911_init
    \/ Tch_gt911_read_touch

TouchSpec == Init /\ [][TouchNext]_vars

(***************************************************************************)
(* Properties of the touch driver calls (TouchSpec)                        *)
(***************************************************************************)
\* the data phases of the register reads of a call, in order
I2cReads(tr) ==
    LET IsRead(e) == e.op = "i2c_read" IN SelectSeq(tr, IsRead)

\* the address phases of the register reads: two bytes, bus kept (nostop)
AddrWrites(tr) ==
    LET IsAddr(e) == e.op = "i2c_write" /\ e.v = 1 IN SelectSeq(tr, IsAddr)

\* the writes that end with a stop: the acknowledgments of the status
StatusWrites(tr) ==
    LET IsAck(e) == e.op = "i2c_write" /\ e.v = 0 IN SelectSeq(tr, IsAck)

\* some register read of the call failed, in its address or its data phase
ReadFailed(tr) ==
    \E i \in DOMAIN tr :
        /\ tr[i].ret < 0
        /\ (tr[i].op = "i2c_read" \/ (tr[i].op = "i2c_write" /\ tr[i].v = 1))

\* the status read of a read_touch call succeeded
StatusRead(tr) == I2cReads(tr) # <<>> /\ I2cReads(tr)[1].ret >= 0

\* the status byte it read
StatusByte(tr) == I2cReads(tr)[1].bytes[1]

\* C13: an init call on a device not yet initialized returns failure and
\* leaves initialized false if any of its reads fails; when it returns
\* success all ten reads (probe, four id bytes, vendor id, X low, X high,
\* Y low, Y high) succeeded, initialized is true, max_x = X_low | X_high << 8
\* and max_y = Y_low | Y_high << 8.
C13_InitAllOrNothing ==
    (last.name = "gt911_init" /\ ~gt_call.dev0.initialized) =>
        LET rd == I2cReads(bus)
            aw == AddrWrites(bus)
        IN  /\ ReadFailed(bus) => (~gt_call.ret /\ ~gt911_dev.initialized)
            /\ gt_call.ret =>
                 /\ ~ReadFailed(bus)
                 /\ Len(rd) = 10
                 /\ [i \in 1..10 |-> aw[i].bytes] =
                      << <<129, 64>>, <<129, 64>>, <<129, 65>>, <<129, 66>>,
                         <<129, 67>>, <<129, 74>>, <<129, 70>>, <<129, 71>>,
                         <<129, 72>>, <<129, 73>> >>
                 /\ gt911_dev.initialized
                 /\ gt911_dev.max_x = rd[7].bytes[1] + 256 * rd[8].bytes[1]
                 /\ gt911_dev.max_y = rd[9].bytes[1] + 256 * rd[10].bytes[1]

C13_Witness ==
    /\ last.name = "gt911_init"
    /\ ~gt_call.dev0.initialized
    /\ gt_call.dev0.max_x = 64
    /\ gt_call.ret
    /\ gt911_dev.max_x = 320
    /\ gt911_dev.max_y = 480

\* C14: an init call that returns failure leaves the whole device record
\* (initialized, product_id, max_x, max_y) as it was before the call.
C14_FailedInitCommitsNothing ==
    (last.name = "gt911_init" /\ ~gt_call.ret) => gt911_dev = gt_call.dev0

\* C15: over any sequence of init and read_touch calls, failed init attempts
\* included, max_x and max_y once written by init never change again.
C15_ResolutionWrittenOnce ==
    [][ /\ gt911_dev.max_x # GtDev0.max_x => gt911_dev'.max_x = gt911_dev.max_x
        /\ gt911_dev.max_y # GtDev0.max_y => gt911_dev'.max_y = gt911_dev.max_y
      ]_vars

\* C16: an init call made while initialized is true returns success, issues
\* no bus transaction and leaves the device record unchanged.
C16_InitIdempotent ==
    (last.name = "gt911_init" /\ gt_call.dev0.initialized) =>
        /\ gt_call.ret
        /\ bus = <<>>
        /\ gt911_dev = gt_call.dev0
        /\ gt_last = gt_call.lst0

C16_Witness ==
    /\ last.name = "gt911_init"
    /\ gt_call.dev0.initialized
    /\ gt_call.ret
    /\ gt_last.x = 300
    /\ bus = <<>>

\* C17: read_touch on a device that is not initialized returns failure,
\* stores nothing through x, y, pressed, issues no bus transaction and
\* leaves the retained coordinate unchanged.
C17_ReadBeforeInit ==
    (last.name = "gt911_read_touch" /\ ~gt_call.dev0.initialized) =>
        /\ ~gt_call.ret
        /\ ~gt_call.out.written
        /\ bus = <<>>
        /\ gt_last = gt_call.lst0

C17_Witness ==
    /\ last.name = "gt911_read_touch"
    /\ ~gt_call.dev0.initialized
    /\ gt_call.dev0.max_x = 64
    /\ ~gt_call.ret
    /\ bus = <<>>

\* C18: in read_touch, after a successful status read, exactly one write of
\* the bytes 0x81 0x4E 0x00 follows the status read when status bit 7 is set
\* or the contact count (low four bits) is below 6, and no such write is
\* made when bit 7 is clear and the count is 6..15.
C18_AckPolicy ==
    (last.name = "gt911_read_touch" /\ StatusRead(bus)) =>
        LET st == StatusByte(bus)
            acks == StatusWrites(bus)
        IN  IF st >= 128 \/ st % 16 < 6
            THEN /\ Len(acks) = 1
                 /\ acks[1].bytes = <<129, 78, 0>>
                 /\ bus[3] = acks[1]
            ELSE acks = <<>>

C18_Witness ==
    /\ last.name = "gt911_read_touch"
    /\ StatusRead(bus)
    /\ StatusByte(bus) = 134
    /\ Len(StatusWrites(bus)) = 1

\* C19: read_touch with a status whose contact count is 1, when the reads
\* of 0x8150, 0x8151, 0x8152, 0x8153 (four transactions, in that order)
\* succeed, returns success with pressed = true, x = X_low | X_high << 8,
\* y = Y_low | Y_high << 8, and (x, y) becomes the retained coordinate.
C19_SingleContact ==
    (/\ last.name = "gt911_read_touch"
     /\ StatusRead(bus)
     /\ StatusByte(bus) % 16 = 1
     /\ ~ReadFailed(bus)) =>
        LET rd == I2cReads(bus)
            aw == AddrWrites(bus)
            x == rd[2].bytes[1] + 256 * rd[3].bytes[1]
            y == rd[4].bytes[1] + 256 * rd[5].bytes[1]
        IN  /\ Len(rd) = 5
            /\ [i \in 1..5 |-> aw[i].bytes] =
                 << <<129, 78>>, <<129, 80>>, <<129, 81>>, <<129, 82>>,
                    <<129, 83>> >>
            /\ gt_call.ret
            /\ gt_call.out = [written |-> TRUE, x |-> x, y |-> y, pressed |-> TRUE]
            /\ gt_last = [x |-> x, y |-> y]

C19_Witness ==
    /\ last.name = "gt911_read_touch"
    /\ gt_call.ret
    /\ gt_call.out.pressed
    /\ gt_call.lst0 = [x |-> 100, y |-> 200]
    /\ gt_last = [x |-> 300, y |-> 480]

\* C20: read_touch with a successfully read status whose contact count is
\* not 1 reads no point register, returns success with pressed = false and
\* x, y equal to the retained coordinate, which it leaves unchanged.
C20_NoSingleContact ==
    (/\ last.name = "gt911_read_touch"
     /\ StatusRead(bus)
     /\ StatusByte(bus) % 16 # 1) =>
        /\ Len(I2cReads(bus)) = 1
        /\ Len(AddrWrites(bus)) = 1
        /\ gt_call.ret
        /\ gt_call.out = [written |-> TRUE, x |-> gt_call.lst0.x,
                          y |-> gt_call.lst0.y, pressed |-> FALSE]
        /\ gt_last = gt_call.lst0

C20_Witness ==
    /\ last.name = "gt911_read_touch"
    /\ StatusRead(bus)
    /\ StatusByte(bus) = 2
    /\ gt_call.lst0 = [x |-> 300, y |-> 480]
    /\ gt_call.out.x = 300
    /\ ~gt_call.out.pressed

\* C21 as claimed: once the status register has been read, read_touch
\* returns success whatever the contact count and whatever happens to the
\* later bus transactions of the call.
C21_SuccessOnceStatusRead ==
    (last.name = "gt911_read_touch" /\ StatusRead(bus)) => gt_call.ret

\* C21 amended: once the status register has been read, read_touch returns
\* success for every contact count other than 1 and whatever the outcome of
\* the acknowledgment write; for a contact count of 1 it returns success
\* exactly when the four point-register reads all succeed.
C21_SuccessUnlessPointReadFails ==
    (last.name = "gt911_read_touch" /\ StatusRead(bus)) =>
        /\ gt_call.ret <=> ~ReadFailed(bus)
        /\ StatusByte(bus) % 16 # 1 => gt_call.ret

C21_Witness ==
    /\ last.name = "gt911_read_touch"
    /\ StatusRead(bus)
    /\ StatusByte(bus) = 129
    /\ Len(I2cReads(bus)) = 3
    /\ ReadFailed(bus)
    /\ ~gt_call.ret

\* C22: the retained coordinate is the same after a read_touch call as
\* before it, unless the call returned success with pressed = true (a
\* completed single-contact read).
C22_RetainedOnlyOnCompleteRead ==
    (last.name = "gt911_read_touch" /\ ~(gt_call.ret /\ gt_call.out.pressed)) =>
        gt_last = gt_call.lst0

\* C23: a gt911_init or gt911_read_touch call in which any bus transaction
\* failed, the acknowledgment write included, returned failure.
C23_EveryBusFailureSurfaces ==
    (/\ last.name \in {"gt911_init", "gt911_read_touch"}
     /\ \E i \in DOMAIN bus : bus[i].ret < 0) => ~gt_call.ret

\* C24: once initialized is true no init or read_touch call changes the
\* device record, whatever the bus does: the flag stays true, and a failing
\* read_touch shows only in its return value.
C24_ReadyHasNoExit ==
    [][gt911_dev.initialized => gt911_dev' = gt911_dev]_vars

C24_Witness ==
    /\ last.name = "gt911_read_touch"
    /\ gt911_dev.initialized
    /\ bus # <<>>
    /\ ~gt_call.ret

\* C30: in a read_touch call that writes the acknowledgment, no register is
\* read after that write: the status byte and the point bytes are all read
\* before it.
C30_ReadThenAcknowledge ==
    (last.name = "gt911_read_touch") =>
        \A i \in DOMAIN bus, j \in DOMAIN bus :
            (/\ bus[i].op = "i2c_write" /\ bus[i].v = 0
             /\ bus[j].op = "i2c_read") => j < i

(***************************************************************************)
(* RegSpec: gt911_i2c_read_reg called with any register, buffer and length *)
(***************************************************************************)
\* the registers of the GT911 map the driver knows
RegVals ==
    { GT911_REG_PRODUCT_ID1, GT911_REG_X_RES_L, GT911_REG_X_RES_H,
      GT911_REG_Y_RES_L, GT911_REG_Y_RES_H, GT911_REG_VENDOR_ID,
      GT911_REG_STATUS, GT911_REG_PT1_X_L, GT911_REG_PT1_X_H,
      GT911_REG_PT1_Y_L, GT911_REG_PT1_Y_H }

\* the bytes the controller sends for a read of len bytes starting at reg
RegBytes(reg, len) == [i \in 1..len |-> (reg + 7 * i) % 256]

Reg_gt911_i2c_read_reg ==
    \E reg \in RegVals, isnull \in BOOLEAN, len \in 0..MaxRegLen,
       w \in BOOLEAN, rd \in BOOLEAN :
        LET r == gt911_i2c_read_reg(reg, isnull, len,
                                    Resp(w, rd, RegBytes(reg, len)))
        IN  /\ last' = [name |-> "gt911_i2c_read_reg", args |-> <<reg, len>>,
                        buf |-> IF isnull THEN NullBuf ELSE Buf(r.data)]
            /\ bus' = r.tr
            /\ calls' = <<>>
            /\ gt_call' = CallRec(r.ok, NoOut, gt911_dev, gt_last, r.tr, NoEnv)
            /\ UNCHANGED <<current_orientation, disp_flush_enabled, pin_cs,
                           pin_dc, sysVars, gt911_dev, gt_last, indev_last,
                           indev_data>>

RegNext == Reg_gt911_i2c_read_reg

RegSpec == Init /\ [][RegNext]_vars

\* C29: gt911_i2c_read_reg(reg, buf, len) with a non-NULL buf and len > 0
\* writes the two bytes [reg >> 8, reg & 0xFF] keeping the bus (no stop),
\* then reads len bytes and releases the bus; it returns failure if either
\* phase fails, and makes no read when the address write failed.  With a
\* NULL buf or len = 0 it returns failure without any bus transaction.
C29_ReadRegister ==
    (last.name = "gt911_i2c_read_reg") =>
        LET reg == last.args[1]
            len == last.args[2]
        IN  IF ~last.buf.null /\ len > 0
            THEN /\ Len(bus) >= 1
                 /\ bus[1].op = "i2c_write"
                 /\ bus[1].v = 1
                 /\ bus[1].bytes = <<reg \div 256, reg % 256>>
                 /\ IF bus[1].ret < 0
                    THEN Len(bus) = 1 /\ ~gt_call.ret
                    ELSE /\ Len(bus) = 2
                         /\ bus[2].op = "i2c_read"
                         /\ bus[2].v = 0
                         /\ gt_call.ret <=> bus[2].ret >= 0
                         /\ gt_call.ret =>
                              /\ bus[2].ret = len
                              /\ Len(bus[2].bytes) = len
                              /\ last.buf.px = bus[2].bytes
            ELSE bus = <<>> /\ ~gt_call.ret

C29_Witness ==
    /\ last.name = "gt911_i2c_read_reg"
    /\ last.args = <<GT911_REG_STATUS, MaxRegLen>>
    /\ gt_call.ret
    /\ Len(bus) = 2

(***************************************************************************)
(* IndevSpec: the input bridge; lv_port_indev_init once, then one sample   *)
(* (touchpad_read) per step                                                *)
(***************************************************************************)
\* bring-up succeeds, or the read of X_RES_H fails
IndevInitEnvs == TouchInitEnvs

IndevReadEnvs == {e \in TouchReadEnvs : e.phase = "data"}

\* lv_port_indev_init() -> touchpad_init(), called once at start-up
Ind_touchpad_init ==
    \E env \in IndevInitEnvs :
        LET r == touchpad_init(gt911_dev, env)
        IN  /\ last.name = "boot"
            /\ gt911_dev' = r.dev
            /\ gt_call' = CallRec(r.ret, NoOut, gt911_dev, gt_last, r.tr, env)
            /\ UNCHANGED <<gt_last, indev_last, indev_data>>
            /\ last' = [name |-> "touchpad_init", args |-> <<>>, buf |-> NullBuf]
            /\ bus' = r.tr
            /\ calls' = <<>>
            /\ UNCHANGED <<current_orientation, disp_flush_enabled, pin_cs,
                           pin_dc, sysVars>>

\* read_cb of the registered input device
Ind_touchpad_read ==
    \E env \in IndevReadEnvs :
        LET r == touchpad_read(gt911_dev, gt_last, indev_last, env)
        IN  /\ last.name # "boot"
            /\ gt_last' = r.drv.lst
            /\ indev_last' = r.lst
            /\ indev_data' = r.data
            /\ gt_call' = CallRec(r.drv.ret, r.drv.out, gt911_dev, gt_last,
                                  r.drv.tr, env)
            /\ UNCHANGED gt911_dev
            /\ last' = [name |-> "touchpad_read", args |-> <<>>, buf |-> NullBuf]
            /\ bus' = r.drv.tr
            /\ calls' = <<>>
            /\ UNCHANGED <<current_orientation, disp_flush_enabled, pin_cs,
                           pin_dc, sysVars>>

IndevNext ==
    \/ Ind_touchpad_init
    \/ Ind_touchpad_read

IndevSpec == Init /\ [][IndevNext]_vars

\* the reads of the status register among the events
StatusPolls(tr) ==
    LET IsPoll(e) == e.op = "i2c_write" /\ e.v = 1 /\ e.bytes = <<129, 78>>
    IN  SelectSeq(tr, IsPoll)

\* C25: every sample sets continue_reading to false and makes one
\* read_touch call (one poll of the status register on an initialized
\* device); when that call succeeds with pressed = true the sample reports
\* its (x, y) unchanged with state pressed, otherwise it reports the
\* coordinate the bridge retained before the sample with state released.
C25_SampleReport ==
    [][ (last'.name = "touchpad_read") =>
          /\ Len(StatusPolls(bus')) = (IF gt911_dev.initialized THEN 1 ELSE 0)
          /\ IF gt_call'.ret /\ gt_call'.out.pressed
             THEN indev_data' = [x |-> gt_call'.out.x, y |-> gt_call'.out.y,
                                 state |-> LV_INDEV_STATE_PR,
                                 continue_reading |-> FALSE]
             ELSE indev_data' = [x |-> indev_last.x, y |-> indev_last.y,
                                 state |-> LV_INDEV_STATE_REL,
                                 continue_reading |-> FALSE]
      ]_vars

C25_Witness ==
    /\ last.name = "touchpad_read"
    /\ gt_call.ret
    /\ ~gt_call.out.pressed
    /\ gt_call.out.x = 44
    /\ indev_data.x = 300
    /\ indev_data.state = LV_INDEV_STATE_REL

(***************************************************************************)
(* Spec: main(), task0 (core 0), task1 (core 1) and gpio_callback          *)
(***************************************************************************)
\* what the bus and the touch controller answer during the system run
SysInitEnvs ==
    { [baud_ok |-> TRUE, fail |-> f, phase |-> "data", ackok |-> TRUE,
       bytes |-> <<57, 57, 49, 49, 0, 0, 64, 1, 224, 1>>] : f \in {0, 8} }

SysTouchEnvs ==
    { [baud_ok |-> TRUE, fail |-> f, phase |-> "addr", ackok |-> TRUE,
       bytes |-> <<st, 100, 0, 200, 0>>] : f \in {0, 4}, st \in {0, 129} }

SysFlushAreas == { [x1 |-> 0, y1 |-> 258, x2 |-> 0, y2 |-> 258 + h - 1] :
                     h \in 1..(MaxSide - 1) }

\* FreeRTOS mutex, taken with portMAX_DELAY: the caller waits until it is free
\* faulty variant: the call returns without waiting for the owner
xSemaphoreTake_nowait(t) ==
    /\ lvgl_mutex # "NULL"
    /\ holder' = t

xSemaphoreTake(t) ==
    /\ lvgl_mutex # "NULL"
    /\ holder = "none"
    /\ holder' = t

\* faulty variant: the give leaves the mutex with its owner
xSemaphoreGive_kept(t) ==
    holder' = holder

xSemaphoreGive(t) ==
    holder' = IF holder = t THEN "none" ELSE holder

\* the blocking SPI / I2C calls return when their transfer is complete
\* faulty variant: the transfer is left running in the background
CallReturned_async(c) == TRUE

CallReturned(c) == txq[c] = <<>>

Boundary(e) == e.op \in {"cs", "i2c_write", "i2c_read"}

FirstBoundary(q) ==
    LET idx == {i \in 1..Len(q) : Boundary(q[i])}
    IN  IF idx = {} THEN Len(q) + 1
        ELSE CHOOSE i \in idx : \A j \in idx : i <= j

SchedRunning == mainpc = "sched" /\ wdog # "reset"

CanRun(c) ==
    /\ wdog # "reset"
    /\ c \in Tasks => SchedRunning
    /\ c = "task1" => isrpc = "idle"

\* The context c advances the driver call it is in: up to the next change of
\* chip-select, or one phase (start, completion) of an I2C transfer.
BusStep(c) ==
    LET q == txq[c]
        k == FirstBoundary(q)
    IN  /\ CanRun(c)
        /\ q # <<>>
        /\ IF k > Len(q)
           THEN /\ txq' = [txq EXCEPT ![c] = <<>>]
                /\ UNCHANGED <<active, pin_cs, pin_dc>>
           ELSE IF q[k].op = "cs"
           THEN /\ txq' = [txq EXCEPT ![c] = SubSeq(q, k + 1, Len(q))]
                /\ active' = [active EXCEPT ![c] = IF q[k].v = 0 THEN "spi" ELSE "none"]
                /\ pin_cs' = q[k].v
                /\ pin_dc' = PinAfter(SubSeq(q, 1, k), "dc", pin_dc)
           ELSE IF k > 1
           THEN /\ txq' = [txq EXCEPT ![c] = SubSeq(q, k, Len(q))]
                /\ UNCHANGED <<active, pin_cs, pin_dc>>
           ELSE IF active[c] = "none"
           THEN /\ active' = [active EXCEPT ![c] = "i2c"]
                /\ UNCHANGED <<txq, pin_cs, pin_dc>>
           ELSE /\ active' = [active EXCEPT ![c] = "none"]
                /\ txq' = [txq EXCEPT ![c] = Tail(q)]
                /\ UNCHANGED <<pin_cs, pin_dc>>
        /\ UNCHANGED <<current_orientation, disp_flush_enabled, last, bus, calls,
                       mainpc, lvgl_mutex, holder, pc, isrpc, screen, hwstep,
                       adc_en, joystick_ball, leds, irq_en, wdog, touchVars>>

BusSteps == \E c \in {"main", "task1"} : BusStep(c)

Issue(c, tr) == txq' = [txq EXCEPT ![c] = @ \o tr]

(***************************************************************************)
(* main()                                                                  *)
(***************************************************************************)
MainOnly(extra) ==
    UNCHANGED <<disp_flush_enabled, pin_cs, pin_dc, last, bus, calls, holder,
                isrpc, active, screen, hwstep, adc_en, joystick_ball, leds,
                irq_en, wdog, gt_last, indev_last, indev_data>>
    /\ extra

\* stdio_init_all(); lv_init();
MainLvInit ==
    /\ mainpc = "lv_init"
    /\ mainpc' = "disp_init"
    /\ MainOnly(UNCHANGED <<current_orientation, lvgl_mutex, pc, txq, gt911_dev, gt_call>>)

\* lv_port_disp_init() -> disp_init() -> st7796_init()
MainDispInit ==
    /\ mainpc = "disp_init"
    /\ Issue("main", st7796_init.tr)
    /\ mainpc' = "disp_wait"
    /\ MainOnly(UNCHANGED <<current_orientation, lvgl_mutex, pc, gt911_dev, gt_call>>)

\* st7796_init has returned; draw buffer and flush_cb are registered
MainDispRegister ==
    /\ mainpc = "disp_wait"
    /\ CallReturned("main")
    /\ current_orientation' = st7796_init.orient
    /\ mainpc' = "indev_init"
    /\ MainOnly(UNCHANGED <<lvgl_mutex, pc, txq, gt911_dev, gt_call>>)

\* lv_port_indev_init() -> touchpad_init() -> gt911_init()
MainIndevInit ==
    \E env \in SysInitEnvs :
        LET r == touchpad_init(gt911_dev, env)
        IN  /\ mainpc = "indev_init"
            /\ Issue("main", r.tr)
            /\ gt911_dev' = r.dev
            /\ gt_call' = CallRec(r.ret, NoOut, gt911_dev, gt_last, r.tr, env)
            /\ mainpc' = "indev_wait"
            /\ MainOnly(UNCHANGED <<current_orientation, lvgl_mutex, pc>>)

\* gt911_init has returned; read_cb is registered
MainIndevRegister ==
    /\ mainpc = "indev_wait"
    /\ CallReturned("main")
    /\ mainpc' = "create_mutex"
    /\ MainOnly(UNCHANGED <<current_orientation, lvgl_mutex, pc, txq, gt911_dev, gt_call>>)

\* lvgl_mutex = xSemaphoreCreateMutex(); NULL when the heap is exhausted
MainCreateMutex ==
    \E h \in {"NULL", "handle"} :
        /\ mainpc = "create_mutex"
        /\ lvgl_mutex' = h
        /\ mainpc' = "check_mutex"
        /\ MainOnly(UNCHANGED <<current_orientation, pc, txq, gt911_dev, gt_call>>)

\* faulty variant: the result of xSemaphoreCreateMutex is not checked
MutexCheck_unchecked(h) == "create_task0"

\* if (lvgl_mutex == NULL) { while(1) ... }
MutexCheck(h) == IF h = "NULL" THEN "trap" ELSE "create_task0"

MainCheckMutex ==
    /\ mainpc = "check_mutex"
    /\ mainpc' = MutexCheck(lvgl_mutex)
    /\ MainOnly(UNCHANGED <<current_orientation, lvgl_mutex, pc, txq, gt911_dev, gt_call>>)

\* faulty variant: the trap is left, execution falls through to task creation
TrapLoop_fallthrough == "create_task0"

\* while(1) { tight_loop_contents(); }
TrapLoop == "trap"

MainTrap ==
    /\ mainpc = "trap"
    /\ mainpc' = TrapLoop
    /\ MainOnly(UNCHANGED <<current_orientation, lvgl_mutex, pc, txq, gt911_dev, gt_call>>)

\* xTaskCreate(task0, ...); vTaskCoreAffinitySet(task0_Handle, 1 << 0);
MainCreateTask0 ==
    /\ mainpc = "create_task0"
    /\ pc' = [pc EXCEPT !["task0"] = "t0_take1"]
    /\ mainpc' = "create_task1"
    /\ MainOnly(UNCHANGED <<current_orientation, lvgl_mutex, txq, gt911_dev, gt_call>>)

\* xTaskCreate(task1, ...); vTaskCoreAffinitySet(task1_Handle, 1 << 1);
MainCreateTask1 ==
    /\ mainpc = "create_task1"
    /\ pc' = [pc EXCEPT !["task1"] = "t1_take"]
    /\ mainpc' = "start_sched"
    /\ MainOnly(UNCHANGED <<current_orientation, lvgl_mutex, txq, gt911_dev, gt_call>>)

\* vTaskStartScheduler(): does not return
MainStartScheduler ==
    /\ mainpc = "start_sched"
    /\ mainpc' = "sched"
    /\ MainOnly(UNCHANGED <<current_orientation, lvgl_mutex, pc, txq, gt911_dev, gt_call>>)

(***************************************************************************)
(* task0                                                                   *)
(***************************************************************************)
T0Only(extra) ==
    UNCHANGED <<current_orientation, disp_flush_enabled, pin_cs, pin_dc, last,
                bus, calls, mainpc, lvgl_mutex, isrpc, txq, active, hwstep,
                adc_en, joystick_ball, leds, irq_en, wdog, touchVars>>
    /\ extra

T0Goto(l) == pc' = [pc EXCEPT !["task0"] = l]

T0AfterTake == [t0_take1 |-> "t0_clean", t0_take2 |-> "t0_create_ui",
                t0_take3 |-> "t0_setpos"]
T0AfterCall == [t0_clean |-> "t0_give1", t0_create_ui |-> "t0_give2",
                t0_setpos |-> "t0_give3"]
T0AfterGive == [t0_give1 |-> "t0_delay1", t0_give2 |-> "t0_loop",
                t0_give3 |-> "t0_delay3"]
T0AfterDelay == [t0_delay1 |-> "t0_take2", t0_delay2 |-> "t0_loop",
                 t0_delay3 |-> "t0_sample"]

\* xSemaphoreTake(lvgl_mutex, portMAX_DELAY) at lines 479, 486, 522
T0Take ==
    /\ CanRun("task0")
    /\ pc["task0"] \in DOMAIN T0AfterTake
    /\ xSemaphoreTake("task0")
    /\ T0Goto(T0AfterTake[pc["task0"]])
    /\ T0Only(UNCHANGED screen)

\* lv_obj_clean(lv_scr_act())
T0Clean ==
    /\ CanRun("task0")
    /\ pc["task0"] = "t0_clean"
    /\ T0Goto(T0AfterCall[pc["task0"]])
    /\ T0Only(UNCHANGED <<screen, holder>>)

\* img1 = lv_img_create(...); lv_example_btn_1();
T0CreateUi ==
    /\ CanRun("task0")
    /\ pc["task0"] = "t0_create_ui"
    /\ screen' = "menu"
    /\ T0Goto(T0AfterCall[pc["task0"]])
    /\ T0Only(UNCHANGED holder)

\* lv_obj_set_pos(joystick_ball, ball_x, ball_y)
T0SetPos ==
    /\ CanRun("task0")
    /\ pc["task0"] = "t0_setpos"
    /\ T0Goto(T0AfterCall[pc["task0"]])
    /\ T0Only(UNCHANGED <<screen, holder>>)

\* xSemaphoreGive(lvgl_mutex) at lines 481, 492, 524
T0Give ==
    /\ CanRun("task0")
    /\ pc["task0"] \in DOMAIN T0AfterGive
    /\ xSemaphoreGive("task0")
    /\ T0Goto(T0AfterGive[pc["task0"]])
    /\ T0Only(UNCHANGED screen)

\* vTaskDelay at lines 483, 529, 526
T0Delay ==
    /\ CanRun("task0")
    /\ pc["task0"] \in DOMAIN T0AfterDelay
    /\ T0Goto(T0AfterDelay[pc["task0"]])
    /\ T0Only(UNCHANGED <<screen, holder>>)

\* if (adc_en) at the head of the outer loop
T0Loop ==
    /\ CanRun("task0")
    /\ pc["task0"] = "t0_loop"
    /\ T0Goto(IF adc_en # 0 THEN "t0_adc_init" ELSE "t0_delay2")
    /\ T0Only(UNCHANGED <<screen, holder>>)

\* adc_init(); adc_gpio_init(26); adc_gpio_init(27);
T0AdcInit ==
    /\ CanRun("task0")
    /\ pc["task0"] = "t0_adc_init"
    /\ T0Goto("t0_sample")
    /\ T0Only(UNCHANGED <<screen, holder>>)

\* adc_select_input / adc_read, twice; the mapping to ball_x, ball_y
T0Sample ==
    /\ CanRun("task0")
    /\ pc["task0"] = "t0_sample"
    /\ T0Goto("t0_take3")
    /\ T0Only(UNCHANGED <<screen, holder>>)

(***************************************************************************)
(* task1: lv_task_handler() under the mutex, every 5 ms                    *)
(***************************************************************************)
T1Only(extra) ==
    UNCHANGED <<current_orientation, disp_flush_enabled, pin_cs, pin_dc, last,
                bus, calls, mainpc, lvgl_mutex, isrpc, active, gt911_dev>>
    /\ extra

T1Goto(l) == pc' = [pc EXCEPT !["task1"] = l]

T1At(l) == CanRun("task1") /\ pc["task1"] = l

T1Quiet == UNCHANGED <<screen, hwstep, adc_en, joystick_ball, leds, irq_en, wdog>>
T1NoTouch == UNCHANGED <<gt_last, indev_last, indev_data, gt_call>>

\* faulty variant: lv_task_handler is entered without taking the mutex
T1Take_unlocked ==
    /\ T1At("t1_take")
    /\ T1Goto("t1_handler")
    /\ T1Only(T1Quiet /\ T1NoTouch /\ UNCHANGED <<txq, holder>>)

T1Take ==
    /\ T1At("t1_take")
    /\ xSemaphoreTake("task1")
    /\ T1Goto("t1_handler")
    /\ T1Only(T1Quiet /\ T1NoTouch /\ UNCHANGED txq)

\* the refresh timer of lv_task_handler calls flush_cb = disp_flush
T1Flush ==
    \E area \in SysFlushAreas :
        LET n == (area.x2 - area.x1 + 1) * (area.y2 - area.y1 + 1)
            cl == disp_flush(disp_flush_enabled, area, DrawBuf(n, 0))
        IN  /\ T1At("t1_handler")
            /\ Issue("task1", BusOfCalls(cl))
            /\ T1Goto("t1_flush")
            /\ T1Only(T1Quiet /\ T1NoTouch /\ UNCHANGED holder)

\* lv_disp_flush_ready(disp_drv); disp_flush returns
T1FlushReady ==
    /\ T1At("t1_flush")
    /\ CallReturned("task1")
    /\ T1Goto("t1_handler")
    /\ T1Only(T1Quiet /\ T1NoTouch /\ UNCHANGED <<txq, holder>>)

\* the input timer of lv_task_handler calls read_cb = touchpad_read
T1TouchRead ==
    \E env \in SysTouchEnvs :
        LET r == touchpad_read(gt911_dev, gt_last, indev_last, env)
        IN  /\ T1At("t1_handler")
            /\ Issue("task1", r.drv.tr)
            /\ gt_last' = r.drv.lst
            /\ indev_last' = r.lst
            /\ indev_data' = r.data
            /\ gt_call' = CallRec(r.drv.ret, r.drv.out, gt911_dev, gt_last, r.drv.tr, env)
            /\ T1Goto("t1_read")
            /\ T1Only(T1Quiet /\ UNCHANGED holder)

T1TouchDone ==
    /\ T1At("t1_read")
    /\ CallReturned("task1")
    /\ T1Goto("t1_handler")
    /\ T1Only(T1Quiet /\ T1NoTouch /\ UNCHANGED <<txq, holder>>)

\* LV_EVENT_CLICKED delivered to hw_btn: hw_handler starts
T1ClickHw ==
    /\ T1At("t1_handler")
    /\ screen = "menu"
    /\ hwstep' = 1
    /\ T1Goto("t1_hw")
    /\ T1Only(T1NoTouch /\ UNCHANGED <<screen, adc_en, joystick_ball, leds,
                                        irq_en, wdog, txq, holder>>)

\* hw_handler, in the order of its statements
T1HwStep ==
    /\ T1At("t1_hw")
    /\ screen' = IF hwstep = 1 THEN "hw" ELSE screen                \* 331-389
    /\ irq_en' = IF hwstep = 2 THEN TRUE ELSE irq_en                \* 391-393
    /\ leds' = IF hwstep = 3 THEN {"led1", "led2"} ELSE leds        \* 395-405
    /\ adc_en' = IF hwstep = 4 THEN 1 ELSE adc_en                   \* 407-416
    /\ joystick_ball' = IF hwstep = 5 THEN "obj" ELSE joystick_ball \* 419-441
    /\ hwstep' = IF hwstep = 5 THEN 0 ELSE hwstep + 1
    /\ T1Goto(IF hwstep = 5 THEN "t1_handler" ELSE "t1_hw")
    /\ T1Only(T1NoTouch /\ UNCHANGED <<wdog, txq, holder>>)

\* LV_EVENT_CLICKED delivered to calc_btn: calculator_handler
T1ClickCalc ==
    /\ T1At("t1_handler")
    /\ screen = "menu"
    /\ screen' = "calc"
    /\ T1Goto("t1_handler")
    /\ T1Only(T1NoTouch /\ UNCHANGED <<hwstep, adc_en, joystick_ball, leds,
                                        irq_en, wdog, txq, holder>>)

\* LV_EVENT_CLICKED delivered to a RESET button: reboot_handler arms the
\* watchdog and spins
T1ClickReboot ==
    /\ T1At("t1_handler")
    /\ screen \in {"hw", "calc"}
    /\ wdog' = "armed"
    /\ T1Goto("t1_spin")
    /\ T1Only(T1NoTouch /\ UNCHANGED <<screen, hwstep, adc_en, joystick_ball,
                                        leds, irq_en, txq, holder>>)

\* lv_task_handler returns
T1Return ==
    /\ T1At("t1_handler")
    /\ T1Goto("t1_give")
    /\ T1Only(T1Quiet /\ T1NoTouch /\ UNCHANGED <<txq, holder>>)

T1Give ==
    /\ T1At("t1_give")
    /\ xSemaphoreGive("task1")
    /\ T1Goto("t1_delay")
    /\ T1Only(T1Quiet /\ T1NoTouch /\ UNCHANGED txq)

\* vTaskDelay(5 / portTICK_PERIOD_MS)
T1Delay ==
    /\ T1At("t1_delay")
    /\ T1Goto("t1_take")
    /\ T1Only(T1Quiet /\ T1NoTouch /\ UNCHANGED <<txq, holder>>)

(***************************************************************************)
(* gpio_callback and the watchdog                                          *)
(***************************************************************************)
EnvOnly(extra) ==
    UNCHANGED <<current_orientation, disp_flush_enabled, pin_cs, pin_dc, last,
                bus, calls, mainpc, lvgl_mutex, holder, pc, txq, active, screen,
                hwstep, adc_en, joystick_ball, leds, irq_en, touchVars>>
    /\ extra

\* A debounced rising edge on GPIO 15 or 14 interrupts core 1 and reaches
\* lv_led_toggle(led1 / led2).  While the LED object is still NULL the call
\* dereferences a null pointer: it either goes on or faults.
IsrEnter ==
    \E led \in {"led1", "led2"} :
      \E outcome \in (IF led \in leds THEN {"toggle"} ELSE {"toggle", "fault"}) :
        /\ SchedRunning
        /\ irq_en
        /\ isrpc = "idle"
        /\ isrpc' = outcome
        /\ EnvOnly(UNCHANGED wdog)

\* lv_led_toggle returns; gpio_xor_mask; the callback returns
IsrReturn ==
    /\ wdog # "reset"
    /\ isrpc = "toggle"
    /\ isrpc' = "idle"
    /\ EnvOnly(UNCHANGED wdog)

\* watchdog_enable(1, false) expires: the chip resets and this run ends
WatchdogReset ==
    /\ wdog = "armed"
    /\ wdog' = "reset"
    /\ EnvOnly(UNCHANGED isrpc)

Next ==
    \/ MainLvInit \/ MainDispInit \/ MainDispRegister
    \/ MainIndevInit \/ MainIndevRegister
    \/ MainCreateMutex \/ MainCheckMutex \/ MainTrap
    \/ MainCreateTask0 \/ MainCreateTask1 \/ MainStartScheduler
    \/ BusSteps
    \/ T0Take \/ T0Clean \/ T0CreateUi \/ T0SetPos \/ T0Give \/ T0Delay
    \/ T0Loop \/ T0AdcInit \/ T0Sample
    \/ T1Take \/ T1Flush \/ T1FlushReady \/ T1TouchRead \/ T1TouchDone
    \/ T1ClickHw \/ T1HwStep \/ T1ClickCalc \/ T1ClickReboot \/ T1Return
    \/ T1Give \/ T1Delay
    \/ IsrEnter \/ IsrReturn \/ WatchdogReset

Spec == Init /\ [][Next]_vars

(***************************************************************************)
(* Properties of the locking discipline (Spec)                             *)
(***************************************************************************)
\* task t is between the return of xSemaphoreTake and its xSemaphoreGive
InSection(t) ==
    IF t = "task0"
    THEN pc[t] \in {"t0_clean", "t0_give1", "t0_create_ui", "t0_give2",
                    "t0_setpos", "t0_give3"}
    ELSE pc[t] \in {"t1_handler", "t1_flush", "t1_read", "t1_hw", "t1_spin",
                    "t1_give"}

\* context c is inside lv_task_handler or a call that changes widget state
EngineCall(c) ==
    CASE c = "task0" -> pc[c] \in {"t0_clean", "t0_create_ui", "t0_setpos"}
      [] c = "task1" -> pc[c] \in {"t1_handler", "t1_flush", "t1_read",
                                   "t1_hw", "t1_spin"}
      [] c = "isr" -> isrpc \in {"toggle", "fault"}
      [] OTHER -> FALSE

SchedulerStarted == mainpc = "sched"

\* C1: task0 and task1 are never both between xSemaphoreTake(lvgl_mutex) and
\* xSemaphoreGive(lvgl_mutex).
C1_MutualExclusion == ~(InSection("task0") /\ InSection("task1"))

C1_Witness ==
    /\ pc["task1"] = "t1_read"
    /\ active["task1"] = "i2c"
    /\ pc["task0"] = "t0_take2"

\* C2: once the scheduler runs, every context that is inside an engine call
\* (lv_task_handler, lv_obj_clean, widget creation, lv_obj_set_pos,
\* lv_led_toggle) holds the render mutex, gpio_callback included.
C2_EngineCallsHoldMutex ==
    SchedulerStarted =>
        \A c \in {"task0", "task1", "isr"} : EngineCall(c) => holder = c

\* C3 as claimed: every SPI / I2C transaction, those of st7796_init and
\* gt911_init included, runs while its context holds the render mutex.
C3_EveryTransactionUnderMutex ==
    \A c \in Contexts : active[c] # "none" => holder = c

\* C3 amended: a transaction issued once the scheduler runs is made by a task
\* that holds the render mutex; the transactions of st7796_init and
\* gt911_init are made by main before the mutex is created and before either
\* task exists.
C3_TransactionsUnderMutexOrAtStartup ==
    \A c \in Contexts :
        active[c] # "none" =>
            IF SchedulerStarted
            THEN c \in Tasks /\ holder = c
            ELSE /\ c = "main"
                 /\ lvgl_mutex = "NULL"
                 /\ \A t \in Tasks : pc[t] = "nocreate"

C3_Witness ==
    /\ SchedulerStarted
    /\ active["task1"] = "i2c"
    /\ holder = "task1"
    /\ pc["task0"] = "t0_take3"

\* C4: at most one context is between asserting and releasing chip-select;
\* that context is main during st7796_init, before the scheduler starts, or
\* task1 inside the flush of its mutex-guarded tick.
C4_OneDisplayTransaction ==
    /\ Cardinality({c \in Contexts : active[c] = "spi"}) <= 1
    /\ \A c \in Contexts :
         active[c] = "spi" =>
            \/ c = "main" /\ mainpc = "disp_wait"
            \/ c = "task1" /\ pc[c] = "t1_flush" /\ holder = c

C4_Witness ==
    /\ active["task1"] = "spi"
    /\ pin_cs = 0
    /\ pc["task0"] = "t0_take3"

\* C5: lvgl_mutex is assigned once, in main before either task is created,
\* and never changes afterwards; whenever task0 or task1 exists the handle is
\* valid.
C5_MutexCreatedOnce ==
    /\ [](\A t \in Tasks : pc[t] # "nocreate" => lvgl_mutex = "handle")
    /\ [][lvgl_mutex' # lvgl_mutex =>
            /\ lvgl_mutex = "NULL"
            /\ mainpc = "create_mutex"
            /\ \A t \in Tasks : pc[t] = "nocreate"]_vars

C5_Witness ==
    /\ pc["task0"] = "t0_create_ui"
    /\ pc["task1"] = "t1_take"
    /\ lvgl_mutex = "handle"

\* C6: when xSemaphoreCreateMutex fails main enters the busy-wait trap and
\* never leaves it; no task exists, the scheduler is not started and no
\* context is inside an engine call.
C6_TrapIsFinal ==
    /\ [](mainpc = "trap" =>
            /\ lvgl_mutex = "NULL"
            /\ \A t \in Tasks : pc[t] = "nocreate"
            /\ \A c \in Contexts : ~EngineCall(c)
            /\ holder = "none")
    /\ [][mainpc = "trap" => (mainpc' = "trap" /\ pc' = pc)]_vars

C6_Witness ==
    /\ mainpc = "trap"
    /\ lvgl_mutex = "NULL"
    /\ gt911_dev.initialized

(***************************************************************************)
(* FairSpec: the system under the scheduling the code relies on            *)
(***************************************************************************)
\* main runs to vTaskStartScheduler; the blocking bus calls complete, also
\* when gpio_callback interrupts them; the watchdog armed with a 1 ms timeout
\* expires; gpio_callback returns.
EnvFairness ==
    /\ WF_vars(MainLvInit \/ MainDispInit \/ MainDispRegister \/ MainIndevInit
               \/ MainIndevRegister \/ MainCreateMutex \/ MainCheckMutex
               \/ MainCreateTask0 \/ MainCreateTask1 \/ MainStartScheduler)
    /\ SF_vars(BusSteps)
    /\ WF_vars(IsrReturn)
    /\ WF_vars(WatchdogReset)

\* task0 on core 0: every statement is executed once it is reached; a task
\* waiting in xSemaphoreTake(portMAX_DELAY) is woken when the mutex is given
Task0Fairness ==
    /\ SF_vars(T0Take)
    /\ WF_vars(T0Clean \/ T0CreateUi \/ T0SetPos \/ T0Give \/ T0Delay
               \/ T0Loop \/ T0AdcInit \/ T0Sample)

\* task1 on core 1, interrupted by gpio_callback: lv_task_handler runs its
\* timers and returns; clicks are the user's choice and are not forced
Task1Fairness ==
    /\ SF_vars(T1Take)
    /\ SF_vars(T1FlushReady)
    /\ SF_vars(T1TouchDone)
    /\ SF_vars(T1HwStep)
    /\ SF_vars(T1Return)
    /\ SF_vars(T1Give)
    /\ SF_vars(T1Delay)

FairSpec == Spec /\ EnvFairness /\ Task0Fairness /\ Task1Fairness

\* C31: every acquisition of the render mutex by a task is eventually followed
\* by the release of the mutex by that task, a tick in which reboot_handler
\* runs inside lv_task_handler included.
C31_AcquireThenRelease ==
    \A t \in Tasks : (holder = t) ~> (holder # t)

\* task t is blocked in vTaskDelay
InDelay(t) ==
    IF t = "task0" THEN pc[t] \in {"t0_delay1", "t0_delay2", "t0_delay3"}
    ELSE pc[t] = "t1_delay"

\* task0 is in adc_init / adc_select_input / adc_read
InAdc == pc["task0"] \in {"t0_adc_init", "t0_sample"}

InitFailed == last.name # "boot" /\ ~gt911_dev.initialized

\* C33: when the gt911_init call made by touchpad_init fails, the driver
\* stays uninitialized for the rest of the run, and every later sample uses
\* no bus transaction and reports state released at coordinate (0, 0).
C33_FailedInitIsFinal ==
    /\ [][InitFailed => ~gt911_dev'.initialized]_vars
    /\ []((InitFailed /\ last.name = "touchpad_read") =>
            /\ bus = <<>>
            /\ ~gt_call.ret
            /\ indev_last = [x |-> 0, y |-> 0]
            /\ indev_data = [x |-> 0, y |-> 0, state |-> LV_INDEV_STATE_REL,
                             continue_reading |-> FALSE])

C33_Witness ==
    /\ last.name = "touchpad_read"
    /\ ~gt911_dev.initialized
    /\ gt911_dev.max_x = 320
    /\ bus = <<>>
    /\ indev_data.state = LV_INDEV_STATE_REL

\* C34: after every sample the coordinate retained by the bridge (last_x,
\* last_y of lv_port_indev.c) equals the coordinate retained by the driver
\* (last_x, last_y of gt911_read_touch).
C34_RetainedCoordinatesAgree ==
    last.name = "touchpad_read" =>
        indev_last = [x |-> ToI16(gt_last.x), y |-> ToI16(gt_last.y)]

(***************************************************************************)
(* The stored orientation against the panel register (DrvSpec)             *)
(***************************************************************************)
\* the data bytes that follow a MADCTL command among the events
MadctlWrites(tr) ==
    LET fr == Frames(tr, 1, 1)
        idx == {i \in 1..(Len(fr) - 1) :
                   /\ fr[i].dc = 0
                   /\ fr[i].bytes = <<ST7796_CMD_MADCTL>>
                   /\ fr[i + 1].dc = 1}
        nth(k) == CHOOSE i \in idx : Cardinality({j \in idx : j <= i}) = k
    IN  [k \in 1..Cardinality(idx) |-> fr[nth(k) + 1].bytes[1]]

\* the rotation a MADCTL byte stands for, -1 for any other byte
RotationOf(reg) ==
    CASE reg = 72 -> ST7796_PORTRAIT
      [] reg = 40 -> ST7796_LANDSCAPE
      [] reg = 136 -> ST7796_PORTRAIT_INV
      [] reg = 232 -> ST7796_LANDSCAPE_INV
      [] OTHER -> -1

\* C35: from the return of st7796_init on, between driver calls the stored
\* orientation is the rotation of the last MADCTL data byte sent to the
\* panel: a call that writes MADCTL leaves the rotation of its last MADCTL
\* byte stored, a call that writes none leaves the stored orientation as it
\* was.
C35_OrientationMatchesMadctl ==
    [][ LET w == MadctlWrites(bus')
        IN  IF w = <<>>
            THEN current_orientation' = current_orientation
            ELSE current_orientation' = RotationOf(w[Len(w)])
      ]_vars

(***************************************************************************)
(* The joystick ball (Spec)                                                *)
(***************************************************************************)
\* C36: whenever task0 is at lv_obj_set_pos(joystick_ball, ...) inside its
\* mutex-guarded section, joystick_ball has been created: hw_handler sets
\* adc_en before it creates the ball, but does both inside the tick for
\* which task1 holds the mutex, and task0 waits for that mutex first.
C36_BallExistsAtSetPos ==
    pc["task0"] = "t0_setpos" => (joystick_ball # "NULL" /\ holder = "task0")

\* task0 has seen adc_en and sampled while the ball does not exist yet, and
\* waits for the mutex task1 holds in hw_handler
C36_Witness ==
    /\ pc["task0"] = "t0_take3"
    /\ pc["task1"] = "t1_hw"
    /\ adc_en = 1
    /\ joystick_ball = "NULL"
    /\ holder = "task1"

====
